---- MODULE Spec2Model ----
(***************************************************************************)
(* Model of the focus-driven navigation engine of webtv-playwright:        *)
(*   RemoteControl        (src/src/utils/remoteControl.js)                  *)
(*   waitForFocusChange,  normalise, createTestIdFocusGetter                *)
(*                        (src/src/utils/navigationHelpers.js)              *)
(*   HomeScreenPage.navigateToApp (src/src/pages/HomeScreenPage.js)         *)
(*   NavigationBar.navigateToMenuItemByName (src/playwright.config.js)      *)
(*                                                                         *)
(* One behaviour is one call of one operation by a test scenario.  The     *)
(* program is single-threaded: `stack` is the call stack of the one flow   *)
(* of control, each entry the label (function + source line) at which that *)
(* frame continues.  The only concurrent party is the external UI, which   *)
(* owns the focus state and may change it at any moment (UIUpdate).        *)
(*                                                                         *)
(* Strings are sequences of UTF-16 code units, so that toLowerCase and     *)
(* trim are computed, not assumed.                                         *)
(*                                                                         *)
(* The program reads the clock only as a difference to a start time, so    *)
(* the epoch of `now` is arbitrary: the call of waitForFocusChange inside  *)
(* a search re-bases the clock to 0 (Rebase), which keeps the reachable    *)
(* clock values finite without changing any difference.                    *)
(***************************************************************************)
EXTENDS Integers, Sequences, FiniteSets, TLC

\* ---------------------------------------------------------------- bounds
\* largest step budget passed to navigateToApp
MaxSteps == 2
\* largest repeat count passed to moveUp/moveDown/moveLeft/moveRight
MaxTimes == 2
\* an await may overrun by 0..MaxLatencyTicks polling intervals
MaxLatencyTicks == 1
\* addAppToFavoritesFromAppsPage is followed with its limits capped: at
\* most MaxDownSteps Down moves, MaxSearchSteps search iterations, and
\* MaxPolls polling intervals of waiting per move
MaxDownSteps == 2
MaxSearchSteps == 2
MaxPolls == 1

\* ------------------------------------------------------------- constants
\* TIMEOUTS (src/src/utils/constants.js)
LONG_PRESS_DURATION == 1500
FOCUS_CHANGE == 500
KEY_PRESS_DELAY == 100
POLLING_INTERVAL == 50
\* use.actionTimeout of playwright.config.js: limit of locator.getAttribute
ACTION_TIMEOUT == 10000
\* NAVIGATION_LIMITS.MAX_MENU_STEPS (src/src/utils/constants.js)
MAX_MENU_STEPS == 10
\* TIMEOUTS.POLLING
POLLING == 1000
\* NAVIGATION_LIMITS.MAX_APP_SEARCH_STEPS, NAVIGATION_LIMITS.MAX_DOWN_STEPS
MAX_APP_SEARCH_STEPS == 100
MAX_DOWN_STEPS == 15
\* NAVIGATION_LIMITS.MAX_RAIL_STEPS, the default maxSteps of navigateToApp
MAX_RAIL_STEPS == 50

Min(a, b) == IF a <= b THEN a ELSE b
\* the limits as capped by the bounds
DownLimit == Min(MAX_DOWN_STEPS, MaxDownSteps)
SearchLimit == Min(MAX_APP_SEARCH_STEPS, MaxSearchSteps)
PollLimit == Min(POLLING, MaxPolls * POLLING_INTERVAL)
RailLimit == Min(MAX_RAIL_STEPS, MaxSteps)

\* --------------------------------------------------------------- strings
\* JS null (no string has a negative code unit)
Null == <<-1>>
\* the focus selector matches no element of the container
NoElem == <<-2>>

\* "X", "x ", "y", ""
StrX == <<88>>
StrxSp == <<120, 32>>
Stry == <<121>>
StrEmpty == <<>>

\* String.prototype.toLowerCase on the code units used here (ASCII)
toLowerCase(s) == [k \in DOMAIN s |-> IF s[k] \in 65..90 THEN s[k] + 32 ELSE s[k]]

\* white space code units removed by String.prototype.trim (ASCII subset)
IsSpace(c) == c \in {9, 10, 11, 12, 13, 32}

RECURSIVE trimStart(_)
trimStart(s) == IF s # <<>> /\ IsSpace(Head(s)) THEN trimStart(Tail(s)) ELSE s

RECURSIVE trimEnd(_)
trimEnd(s) == IF s # <<>> /\ IsSpace(s[Len(s)]) THEN trimEnd(SubSeq(s, 1, Len(s) - 1)) ELSE s

trim(s) == trimEnd(trimStart(s))

\* JS truthiness of a string-or-null value
Truthy(v) == v # Null /\ v # <<>>

\* normalise(value): value ? value.toLowerCase().trim() : ''
normalise_NoTrim(value) == IF Truthy(value) THEN toLowerCase(value) ELSE <<>>
normalise(value) == IF Truthy(value) THEN trim(toLowerCase(value)) ELSE <<>>

\* ------------------------------------------------------------ input sets
\* data-testid values the focused list item may carry (Null: no attribute)
TestIds == {StrX, StrxSp, Stry, Null}
\* states of the external focus indicator of the rail
FocusStates == TestIds \cup {NoElem}
\* appName arguments
AppNames == {StrxSp, Stry, StrEmpty}
\* appName arguments of addAppToFavoritesFromAppsPage
AddAppNames == {StrxSp}
\* 'Netflix', the app ensureNetflixInFavorites looks for
Netflix == <<78, 101, 116, 102, 108, 105, 120>>
\* states of the focus indicator of the Video rail of the Apps page: the
\* app looked for, another app, no item focused
AppsPageFocusStates == {Netflix, StrX, NoElem}
\* appName arguments of removeAppFromFavoritesIfExists
RemoveAppNames == {Stry}
\* values of the delete button's data-focused attribute (Null: no attribute)
DeleteButtonStates == {"disabled", "focused", "null"}
\* previousValue arguments of a direct waitForFocusChange call
PreviousValues == {StrX, Stry, Null}
\* timeout arguments of a direct waitForFocusChange call
WfcTimeouts == {0 - POLLING_INTERVAL, 0, 2 * POLLING_INTERVAL, 3 * POLLING_INTERVAL}
\* duration arguments of holdSelect
HoldDurations == {0, LONG_PRESS_DURATION}
\* time an await may take beyond its nominal duration
Latencies == {k * POLLING_INTERVAL : k \in 0..MaxLatencyTicks}

\* the RemoteControl.keys table
Keys == [UP |-> "ArrowUp", DOWN |-> "ArrowDown", LEFT |-> "ArrowLeft",
         RIGHT |-> "ArrowRight", SELECT |-> "Enter", BACK |-> "Escape"]

MoveOps == {"moveUp", "moveDown", "moveLeft", "moveRight"}
PressOps == {"select", "back"}

\* JavaScript's undefined and NaN where a number or a locator is expected
Undefined == -1
NaN == -2
\* no menu item carries data-focused="focused"
NoMenuItem == -3
\* a focus state not read yet
NotRead == -4

\* NavigationBar.menuItems: name -> locator and position; a locator is
\* identified by the k of its test id main-menu-item-k
MenuItems ==
  ("Search" :> [item |-> 0, index |-> 0]) @@
  ("Home" :> [item |-> 1, index |-> 1]) @@
  ("Tv Guide" :> [item |-> 2, index |-> 2]) @@
  ("Channels" :> [item |-> 3, index |-> 3]) @@
  ("Gaming" :> [item |-> 4, index |-> 4]) @@
  ("Free" :> [item |-> 5, index |-> 5]) @@
  ("Apps" :> [item |-> 6, index |-> 6])

\* names every object literal inherits from Object.prototype
ObjectPrototypeNames == {"constructor", "toString"}
\* menuName arguments: the seven items, a name that is no property at
\* all, a name that is an inherited property only
MenuNameInputs == DOMAIN MenuItems \cup {"Settings", "constructor"}
\* maxSteps arguments of navigateToMenuItemByName (the default included)
MenuBudgets == (0..MaxSteps) \cup {MAX_MENU_STEPS}
\* states of the external focus indicator of the menu bar
MenuFocusStates == {MenuItems[n].item : n \in DOMAIN MenuItems} \cup {NoMenuItem}

VARIABLES
  op,        \* the operation the scenario called
  arg,       \* its numeric argument (times, duration, maxSteps, timeout)
  stack,     \* call stack: labels at which each frame continues
  outcome,   \* "running", "returned" or "threw"
  retTok,    \* value of the last return of a token-valued function
  retBool,   \* value of the last return of a boolean-valued function
  now,       \* Date.now()
  focus,     \* external UI: data-testid of the focused list item
  keyTrace,  \* key events dispatched to the page, in order
  lastKeyAt, \* time at which the last key event was dispatched
  remote,    \* RemoteControl fields: keyPressDelay, keys
  pkm,       \* pressKeyMultiple frame: key, times, i
  pk,        \* pressKey frame: key
  hold,      \* holdSelect frame: duration, downAt
  wfc,       \* waitForFocusChange frame
  nav,       \* navigateToApp frame
  lastRead,  \* value returned by the last accessor call
  wfcReads,  \* accessor calls completed in the current/last waitForFocusChange
  wfcCalls,  \* calls of waitForFocusChange so far
  logs,      \* records written by logNavigationFailure
  menuFocus, \* external UI: the menu item whose data-focused is "focused"
  menu,      \* navigateToMenuItemByName frame
  add,       \* addAppToFavoritesFromAppsPage frame
  journey    \* removeAppFromFavoritesIfExists / ensureNetflixInFavorites frame

vars == <<op, arg, stack, outcome, retTok, retBool, now, focus, keyTrace, lastKeyAt,
          remote, pkm, pk, hold, wfc, nav, lastRead, wfcReads, wfcCalls, logs,
          menuFocus, menu, add, journey>>

\* the state of the menu bar and of its navigation
menuVars == <<menuFocus, menu>>
\* the state of the other page operations
pageVars == <<menuVars, add, journey>>

\* ------------------------------------------------------------ call stack
Top == IF stack = <<>> THEN "idle" ELSE stack[Len(stack)]
Goto(l) == stack' = [stack EXCEPT ![Len(stack)] = l]
Call(retLabel, callee) == stack' = Append([stack EXCEPT ![Len(stack)] = retLabel], callee)
Return == stack' = SubSeq(stack, 1, Len(stack) - 1)

\* frames not in use
NoPkm == [key |-> "", times |-> 0, i |-> 0]
NoWfc == [previousValue |-> Null, timeout |-> 0, startTime |-> 0, currentValue |-> Null]
NoNav == [appName |-> <<>>, maxSteps |-> 0, target |-> <<>>, i |-> 0,
          currentId |-> Null, newId |-> Null]
NoHold == [duration |-> 0, downAt |-> 0]
NoMenu == [menuName |-> "", maxSteps |-> 0,
           target |-> [kind |-> "undefined", item |-> Undefined, index |-> Undefined],
           direction |-> "", steps |-> 0, i |-> 0,
           reads |-> 0, anchorRead |-> NotRead, finalRead |-> NotRead,
           error |-> "", result |-> Undefined]
NoJourney == [appName |-> <<>>, inFavorites |-> "unread", found |-> "unset",
              deleteButtonState |-> "unread", added |-> "unset", error |-> ""]
NoAdd == [appName |-> <<>>, i |-> 0, previousTestId |-> Null, currentTestId |-> Null,
          newTestId |-> Null, finalTestId |-> Null, warned |-> FALSE, error |-> ""]

\* ------------------------------------------------------------ the UI
\* The focus indicator belongs to the external UI, which updates it
\* asynchronously: it may lag, stall, clamp, wrap, lose focus or move on
\* its own.  Any change is possible at any moment of a running operation.
UIUpdate ==
  /\ outcome = "running"
  /\ \E f \in FocusStates \ {focus} : focus' = f
  /\ UNCHANGED pageVars
  /\ UNCHANGED <<op, arg, stack, outcome, retTok, retBool, now, keyTrace, lastKeyAt,
                 remote, pkm, pk, hold, wfc, nav, lastRead, wfcReads, wfcCalls, logs>>

\* ------------------------------------------------------ RemoteControl
\* line 37: the settling delay is awaited only when it is positive
PressKeySettles_NoDelay(delay) == FALSE
PressKeySettles(delay) == delay > 0

\* line 49: loop condition of pressKeyMultiple
PkmLoopCond_OffByOne(i, times) == i <= times
PkmLoopCond(i, times) == i < times

\* a call pressKeyMultiple(key, times): its fresh frame
PkmFrame(key, times) == [key |-> key, times |-> times, i |-> 0]

\* key event records
KeyPress(key) == [type |-> "press", key |-> key]
KeyDown(key) == [type |-> "down", key |-> key]
KeyUp_Down(key) == [type |-> "down", key |-> key]
KeyUp(key) == [type |-> "up", key |-> key]

\* pressKeyMultiple, line 49: for (let i = 0; i < times; i++) await this.pressKey(key)
Pkm49 ==
  /\ Top = "pkm49"
  /\ IF PkmLoopCond(pkm.i, pkm.times)
       THEN /\ Call("pkm50", "pk36")
            /\ pk' = pkm.key
            /\ pkm' = pkm
       ELSE /\ Return
            /\ pkm' = NoPkm
            /\ pk' = pk
  /\ UNCHANGED pageVars
  /\ UNCHANGED <<op, arg, outcome, retTok, retBool, now, focus, keyTrace, lastKeyAt,
                 remote, hold, wfc, nav, lastRead, wfcReads, wfcCalls, logs>>

\* pressKeyMultiple, line 49-50: pressKey returned, i++
Pkm50 ==
  /\ Top = "pkm50"
  /\ pkm' = [pkm EXCEPT !.i = pkm.i + 1]
  /\ Goto("pkm49")
  /\ UNCHANGED pageVars
  /\ UNCHANGED <<op, arg, outcome, retTok, retBool, now, focus, keyTrace, lastKeyAt,
                 remote, pk, hold, wfc, nav, lastRead, wfcReads, wfcCalls, logs>>

\* pressKey, line 36: await this.page.keyboard.press(key)
Pk36 ==
  /\ Top = "pk36"
  /\ \E d \in Latencies : now' = now + d
  /\ keyTrace' = Append(keyTrace, KeyPress(pk))
  /\ lastKeyAt' = now'
  /\ Goto("pk37")
  /\ UNCHANGED pageVars
  /\ UNCHANGED <<op, arg, outcome, retTok, retBool, focus,
                 remote, pkm, pk, hold, wfc, nav, lastRead, wfcReads, wfcCalls, logs>>

\* pressKey, line 37: if (this.keyPressDelay > 0)
Pk37 ==
  /\ Top = "pk37"
  /\ IF PressKeySettles(remote.keyPressDelay)
       THEN Goto("pk38") /\ pk' = pk
       ELSE Return /\ pk' = ""
  /\ UNCHANGED pageVars
  /\ UNCHANGED <<op, arg, outcome, retTok, retBool, now, focus, keyTrace, lastKeyAt,
                 remote, pkm, hold, wfc, nav, lastRead, wfcReads, wfcCalls, logs>>

\* pressKey, line 38: await this.page.waitForTimeout(this.keyPressDelay)
Pk38_Instant ==
  /\ Top = "pk38"
  /\ \E d \in Latencies : now' = now + d
  /\ Return
  /\ pk' = ""
  /\ UNCHANGED pageVars
  /\ UNCHANGED <<op, arg, outcome, retTok, retBool, focus, keyTrace, lastKeyAt,
                 remote, pkm, hold, wfc, nav, lastRead, wfcReads, wfcCalls, logs>>
Pk38 ==
  /\ Top = "pk38"
  /\ \E d \in Latencies : now' = now + remote.keyPressDelay + d
  /\ Return
  /\ pk' = ""
  /\ UNCHANGED pageVars
  /\ UNCHANGED <<op, arg, outcome, retTok, retBool, focus, keyTrace, lastKeyAt,
                 remote, pkm, hold, wfc, nav, lastRead, wfcReads, wfcCalls, logs>>

\* holdSelect, line 101: await this.page.keyboard.down(this.keys.SELECT)
Hold101 ==
  /\ Top = "hold101"
  /\ \E d \in Latencies : now' = now + d
  /\ keyTrace' = Append(keyTrace, KeyDown(remote.keys.SELECT))
  /\ lastKeyAt' = now'
  /\ hold' = [hold EXCEPT !.downAt = now']
  /\ Goto("hold102")
  /\ UNCHANGED pageVars
  /\ UNCHANGED <<op, arg, outcome, retTok, retBool, focus,
                 remote, pkm, pk, wfc, nav, lastRead, wfcReads, wfcCalls, logs>>

\* holdSelect, line 102: await this.page.waitForTimeout(duration)
Hold102 ==
  /\ Top = "hold102"
  /\ \E d \in Latencies : now' = now + hold.duration + d
  /\ Goto("hold103")
  /\ UNCHANGED pageVars
  /\ UNCHANGED <<op, arg, outcome, retTok, retBool, focus, keyTrace, lastKeyAt,
                 remote, pkm, pk, hold, wfc, nav, lastRead, wfcReads, wfcCalls, logs>>

\* holdSelect, line 103: await this.page.keyboard.up(this.keys.SELECT)
Hold103 ==
  /\ Top = "hold103"
  /\ \E d \in Latencies : now' = now + d
  /\ keyTrace' = Append(keyTrace, KeyUp(remote.keys.SELECT))
  /\ lastKeyAt' = now'
  /\ Return
  /\ UNCHANGED pageVars
  /\ UNCHANGED <<op, arg, outcome, retTok, retBool, focus,
                 remote, pkm, pk, hold, wfc, nav, lastRead, wfcReads, wfcCalls, logs>>

\* key of a move operation: moveUp -> this.keys.UP, ...
MoveKey_Mirrored(o, keys) ==
  CASE o = "moveUp" -> keys.UP
    [] o = "moveDown" -> keys.DOWN
    [] o = "moveLeft" -> keys.RIGHT
    [] o = "moveRight" -> keys.LEFT
MoveKey(o, keys) ==
  CASE o = "moveUp" -> keys.UP
    [] o = "moveDown" -> keys.DOWN
    [] o = "moveLeft" -> keys.LEFT
    [] o = "moveRight" -> keys.RIGHT

\* key of select() / back()
PressOpKey(o, keys) ==
  CASE o = "select" -> keys.SELECT
    [] o = "back" -> keys.BACK

\* moveUp/moveDown/moveLeft/moveRight, lines 58-84:
\* await this.pressKeyMultiple(this.keys.X, times) has returned
MoveDone ==
  /\ Top = "move"
  /\ Return
  /\ UNCHANGED pageVars
  /\ UNCHANGED <<op, arg, outcome, retTok, retBool, now, focus, keyTrace, lastKeyAt,
                 remote, pkm, pk, hold, wfc, nav, lastRead, wfcReads, wfcCalls, logs>>

\* select/back, lines 89-91 and 109-111: await this.pressKey(key) has returned
PressDone ==
  /\ Top = "press"
  /\ Return
  /\ UNCHANGED pageVars
  /\ UNCHANGED <<op, arg, outcome, retTok, retBool, now, focus, keyTrace, lastKeyAt,
                 remote, pkm, pk, hold, wfc, nav, lastRead, wfcReads, wfcCalls, logs>>

\* ------------------------------------------- createTestIdFocusGetter
\* an uncaught error ends the operation
Throw == stack' = <<>> /\ outcome' = "threw"

\* the accessor returns v to its caller
GetterReturn(v) ==
  /\ Return
  /\ retTok' = v
  /\ lastRead' = v
  /\ wfcReads' = IF stack[Len(stack) - 1] = "wfc31" THEN wfcReads + 1 ELSE wfcReads

\* line 66: if ((await focused.count()) === 0) return null
Get66 ==
  /\ Top = "get66"
  /\ \E d \in Latencies : now' = now + d
  /\ IF focus = NoElem
       THEN GetterReturn(Null)
       ELSE Goto("get69") /\ UNCHANGED <<retTok, lastRead, wfcReads>>
  /\ UNCHANGED pageVars
  /\ UNCHANGED <<op, arg, outcome, retBool, focus, keyTrace, lastKeyAt,
                 remote, pkm, pk, hold, wfc, nav, wfcCalls, logs>>

\* line 69: return await focused.getAttribute('data-testid')
\* getAttribute waits for an element to match; when none does within the
\* action timeout it rejects and the error propagates uncaught.
Get69_Hangs ==
  /\ Top = "get69"
  /\ focus # NoElem
  /\ \E d \in Latencies : now' = now + d
  /\ GetterReturn(focus)
  /\ UNCHANGED pageVars
  /\ UNCHANGED <<op, arg, outcome, retBool, focus, keyTrace, lastKeyAt,
                 remote, pkm, pk, hold, wfc, nav, wfcCalls, logs>>
Get69_Cached ==
  /\ Top = "get69"
  /\ IF focus # NoElem
       THEN /\ \E d \in Latencies : now' = now + d
            /\ GetterReturn(IF wfcReads > 0 THEN lastRead ELSE focus)
            /\ UNCHANGED outcome
       ELSE /\ now' = now + ACTION_TIMEOUT
            /\ Throw
            /\ UNCHANGED <<retTok, lastRead, wfcReads>>
  /\ UNCHANGED pageVars
  /\ UNCHANGED <<op, arg, retBool, focus, keyTrace, lastKeyAt,
                 remote, pkm, pk, hold, wfc, nav, wfcCalls, logs>>
Get69 ==
  /\ Top = "get69"
  /\ IF focus # NoElem
       THEN /\ \E d \in Latencies : now' = now + d
            /\ GetterReturn(focus)
            /\ UNCHANGED outcome
       ELSE /\ now' = now + ACTION_TIMEOUT
            /\ Throw
            /\ UNCHANGED <<retTok, lastRead, wfcReads>>
  /\ UNCHANGED pageVars
  /\ UNCHANGED <<op, arg, retBool, focus, keyTrace, lastKeyAt,
                 remote, pkm, pk, hold, wfc, nav, wfcCalls, logs>>

\* ------------------------------------------------ waitForFocusChange
\* line 30: while (Date.now() - startTime < timeout)
WfcLoopCond_Inclusive(t, startTime, timeout) == t - startTime <= timeout
WfcLoopCond(t, startTime, timeout) == t - startTime < timeout

\* line 32: if (currentValue !== previousValue)
WfcChanged_Loose(currentValue, previousValue) ==
  currentValue # previousValue /\ currentValue # Null /\ previousValue # Null
WfcChanged(currentValue, previousValue) == currentValue # previousValue

\* line 38: return previousValue
WfcTimeoutValue_Null(previousValue) == Null
WfcTimeoutValue(previousValue) == previousValue

\* a call waitForFocusChange(page, getValueFn, previousValue, timeout):
\* its fresh frame, line 29: const startTime = Date.now()
WfcFrame(previousValue, timeout, t) ==
  [previousValue |-> previousValue, timeout |-> timeout, startTime |-> t,
   currentValue |-> Null]

\* a clock value after the epoch is moved to the present
Rebase(t) == t - now

\* line 30-31: loop test, then const currentValue = await getValueFn()
\* or, the loop over, line 38: return previousValue
Wfc30 ==
  /\ Top = "wfc30"
  /\ IF WfcLoopCond(now, wfc.startTime, wfc.timeout)
       THEN /\ Call("wfc31", "get66")
            /\ UNCHANGED <<retTok, wfc>>
       ELSE /\ Return
            /\ retTok' = WfcTimeoutValue(wfc.previousValue)
            /\ wfc' = NoWfc
  /\ UNCHANGED pageVars
  /\ UNCHANGED <<op, arg, outcome, retBool, now, focus, keyTrace, lastKeyAt,
                 remote, pkm, pk, hold, nav, lastRead, wfcReads, wfcCalls, logs>>

\* line 31-33: the accessor returned: const currentValue = ...;
\* if (currentValue !== previousValue) return currentValue
Wfc31 ==
  /\ Top = "wfc31"
  /\ IF WfcChanged(retTok, wfc.previousValue)
       THEN /\ Return
            /\ wfc' = NoWfc
       ELSE /\ Goto("wfc35")
            /\ wfc' = [wfc EXCEPT !.currentValue = retTok]
  /\ UNCHANGED pageVars
  /\ UNCHANGED <<op, arg, outcome, retTok, retBool, now, focus, keyTrace, lastKeyAt,
                 remote, pkm, pk, hold, nav, lastRead, wfcReads, wfcCalls, logs>>

\* line 35: await page.waitForTimeout(TIMEOUTS.POLLING_INTERVAL)
Wfc35_Pressing ==
  /\ Top = "wfc35"
  /\ \E d \in Latencies : now' = now + POLLING_INTERVAL + d
  /\ keyTrace' = Append(keyTrace, KeyPress(remote.keys.RIGHT))
  /\ Goto("wfc30")
  /\ UNCHANGED pageVars
  /\ UNCHANGED <<op, arg, outcome, retTok, retBool, focus, lastKeyAt,
                 remote, pkm, pk, hold, wfc, nav, lastRead, wfcReads, wfcCalls, logs>>
Wfc35 ==
  /\ Top = "wfc35"
  /\ \E d \in Latencies : now' = now + POLLING_INTERVAL + d
  /\ Goto("wfc30")
  /\ UNCHANGED pageVars
  /\ UNCHANGED <<op, arg, outcome, retTok, retBool, focus, keyTrace, lastKeyAt,
                 remote, pkm, pk, hold, wfc, nav, lastRead, wfcReads, wfcCalls, logs>>

\* ------------------------------------- HomeScreenPage.navigateToApp
\* line 92: for (let i = 0; i < maxSteps; i++)
NavLoopCond_OffByOne(i, maxSteps) == i <= maxSteps
NavLoopCond(i, maxSteps) == i < maxSteps

\* line 95: if (currentId && normalise(currentId) === target)
NavMatches_NoGuard(currentId, appName) == normalise(currentId) = normalise(appName)
NavMatches_Raw(currentId, appName) == Truthy(currentId) /\ currentId = appName
NavMatches(currentId, appName) == Truthy(currentId) /\ normalise(currentId) = normalise(appName)

\* line 108: if (newId === currentId)
NavStalled_Never(newId, currentId) == FALSE
NavStalled(newId, currentId) == newId = currentId

\* line 111: return false
NavStallResult_True == TRUE
NavStallResult == FALSE

\* line 115: return false
NavBudgetResult == FALSE

\* logNavigationFailure(context, target, lastFocused)
LogRecord(context, target, lastFocused) ==
  [context |-> context, target |-> target, lastFocused |-> lastFocused]

\* line 85-90: await favouriteAppsRail.waitFor({ state: 'visible' });
\* const target = normalise(appName); the rail is on screen
Nav86 ==
  /\ Top = "nav86"
  /\ \E d \in Latencies : now' = now + d
  /\ nav' = [nav EXCEPT !.target = normalise(nav.appName), !.i = 0]
  /\ Goto("nav92")
  /\ UNCHANGED pageVars
  /\ UNCHANGED <<op, arg, outcome, retTok, retBool, focus, keyTrace, lastKeyAt,
                 remote, pkm, pk, hold, wfc, lastRead, wfcReads, wfcCalls, logs>>

\* line 92-93: loop test, then const currentId = await getFocusedAppTestId();
\* the loop over, line 114
Nav92 ==
  /\ Top = "nav92"
  /\ IF NavLoopCond(nav.i, nav.maxSteps)
       THEN Call("nav93", "get66")
       ELSE Goto("nav114")
  /\ UNCHANGED pageVars
  /\ UNCHANGED <<op, arg, outcome, retTok, retBool, now, focus, keyTrace, lastKeyAt,
                 remote, pkm, pk, hold, wfc, nav, lastRead, wfcReads, wfcCalls, logs>>

\* line 93-99: the accessor returned: const currentId = ...; return true
\* on a match, else await this.remote.moveRight()
Nav93 ==
  /\ Top = "nav93"
  /\ nav' = [nav EXCEPT !.currentId = retTok]
  /\ IF NavMatches(retTok, nav.appName)
       THEN /\ Return
            /\ retBool' = TRUE
            /\ pkm' = pkm
       ELSE /\ stack' = SubSeq(stack, 1, Len(stack) - 1) \o <<"nav99", "move", "pkm49">>
            /\ pkm' = PkmFrame(remote.keys.RIGHT, 1)
            /\ retBool' = retBool
  /\ UNCHANGED pageVars
  /\ UNCHANGED <<op, arg, outcome, retTok, now, focus, keyTrace, lastKeyAt,
                 remote, pk, hold, wfc, lastRead, wfcReads, wfcCalls, logs>>

\* line 101-106: moveRight returned; newId = await waitForFocusChange(
\* this.page, getFocusedAppTestId, currentId, TIMEOUTS.FOCUS_CHANGE)
Nav99 ==
  /\ Top = "nav99"
  /\ now' = Rebase(now)
  /\ lastKeyAt' = Rebase(lastKeyAt)
  /\ wfc' = WfcFrame(nav.currentId, FOCUS_CHANGE, now')
  /\ wfcCalls' = wfcCalls + 1
  /\ wfcReads' = 0
  /\ Call("nav101", "wfc30")
  /\ UNCHANGED pageVars
  /\ UNCHANGED <<op, arg, outcome, retTok, retBool, focus, keyTrace,
                 remote, pkm, pk, hold, nav, lastRead, logs>>

\* line 101-111: waitForFocusChange returned: const newId = ...;
\* a stall logs and returns false; else i++ and loop
Nav101_MatchNewId ==
  /\ Top = "nav101"
  /\ IF NavStalled(retTok, nav.currentId)
       THEN /\ logs' = Append(logs, LogRecord("app navigation in Favourite Apps rail",
                                             nav.appName, nav.currentId))
            /\ Return
            /\ retBool' = NavStallResult
            /\ nav' = [nav EXCEPT !.newId = retTok]
       ELSE IF NavMatches(retTok, nav.appName)
         THEN /\ nav' = [nav EXCEPT !.newId = retTok, !.i = nav.i + 1]
              /\ Return
              /\ retBool' = TRUE
              /\ logs' = logs
         ELSE /\ nav' = [nav EXCEPT !.newId = retTok, !.i = nav.i + 1]
              /\ Goto("nav92")
              /\ UNCHANGED <<logs, retBool>>
  /\ UNCHANGED pageVars
  /\ UNCHANGED <<op, arg, outcome, retTok, now, focus, keyTrace, lastKeyAt,
                 remote, pkm, pk, hold, wfc, lastRead, wfcReads, wfcCalls>>
Nav101 ==
  /\ Top = "nav101"
  /\ IF NavStalled(retTok, nav.currentId)
       THEN /\ logs' = Append(logs, LogRecord("app navigation in Favourite Apps rail",
                                             nav.appName, nav.currentId))
            /\ Return
            /\ retBool' = NavStallResult
            /\ nav' = [nav EXCEPT !.newId = retTok]
       ELSE /\ nav' = [nav EXCEPT !.newId = retTok, !.i = nav.i + 1]
            /\ Goto("nav92")
            /\ UNCHANGED <<logs, retBool>>
  /\ UNCHANGED pageVars
  /\ UNCHANGED <<op, arg, outcome, retTok, now, focus, keyTrace, lastKeyAt,
                 remote, pkm, pk, hold, wfc, lastRead, wfcReads, wfcCalls>>

\* line 114-115: the step budget is spent: log and return false
Nav114_Throws ==
  /\ Top = "nav114"
  /\ logs' = Append(logs, LogRecord("app navigation (max steps reached)", nav.appName, Null))
  /\ Throw
  /\ UNCHANGED pageVars
  /\ UNCHANGED <<op, arg, retTok, retBool, now, focus, keyTrace, lastKeyAt,
                 remote, pkm, pk, hold, wfc, nav, lastRead, wfcReads, wfcCalls>>
Nav114 ==
  /\ Top = "nav114"
  /\ logs' = Append(logs, LogRecord("app navigation (max steps reached)", nav.appName, Null))
  /\ Return
  /\ retBool' = NavBudgetResult
  /\ UNCHANGED pageVars
  /\ UNCHANGED <<op, arg, outcome, retTok, now, focus, keyTrace, lastKeyAt,
                 remote, pkm, pk, hold, wfc, nav, lastRead, wfcReads, wfcCalls>>

\* ------------------------------- NavigationBar.navigateToMenuItemByName
\* (lines of src/playwright.config.js)
\* the focus indicator of the menu bar belongs to the external UI as well
MenuUIUpdate ==
  /\ outcome = "running"
  /\ \E f \in MenuFocusStates \ {menuFocus} : menuFocus' = f
  /\ UNCHANGED <<add, journey>>
  /\ UNCHANGED <<op, arg, stack, outcome, retTok, retBool, now, focus, keyTrace, lastKeyAt,
                 remote, pkm, pk, hold, wfc, nav, lastRead, wfcReads, wfcCalls, logs, menu>>

\* line 179: const target = this.menuItems[menuName]: a property read of
\* an object literal finds own properties and inherited ones
MenuLookup(menuItems, menuName) ==
  IF menuName \in DOMAIN menuItems
    THEN [kind |-> "object", item |-> menuItems[menuName].item,
          index |-> menuItems[menuName].index]
    ELSE IF menuName \in ObjectPrototypeNames
      THEN [kind |-> "function", item |-> Undefined, index |-> Undefined]
      ELSE [kind |-> "undefined", item |-> Undefined, index |-> Undefined]

\* line 180: if (!target)
MenuTargetMissing(target) == target.kind = "undefined"

\* line 187: remote.moveUp(2)
MenuUpMoves == 2

\* line 188: expect(this.homeItem).toHaveAttribute('data-focused', 'focused')
MenuAnchorFocused_Unchecked(uiFocus) == TRUE
MenuAnchorFocused(uiFocus) == uiFocus = MenuItems["Home"].item

\* line 190: const homeIndex = 1
HomeIndex == 1

\* line 191: const direction = target.index > homeIndex ? 'right' : 'left'
MenuDirection_Flipped(index) ==
  IF index # Undefined /\ index > HomeIndex THEN "left" ELSE "right"
MenuDirection(index) ==
  IF index # Undefined /\ index > HomeIndex THEN "right" ELSE "left"

\* line 192: const steps = Math.abs(target.index - homeIndex)
MenuSteps(index) ==
  IF index = Undefined THEN NaN
  ELSE IF index >= HomeIndex THEN index - HomeIndex ELSE HomeIndex - index

\* lines 196, 204: i < Math.min(steps, maxSteps)
MenuLoopCond_BudgetOnly(i, steps, maxSteps) == steps # NaN /\ i < maxSteps
MenuLoopCond(i, steps, maxSteps) ==
  steps # NaN /\ i < (IF steps <= maxSteps THEN steps ELSE maxSteps)

\* lines 201, 209: remote.moveRight() in the right branch, remote.moveLeft()
\* in the left one
MenuLateralKey(direction, keys) == IF direction = "right" THEN keys.RIGHT ELSE keys.LEFT

\* lines 197-198, 205-206, 213: the item's data-focused is 'focused'
MenuItemFocused_Unchecked(item, uiFocus) == TRUE
MenuItemFocused(item, uiFocus) == uiFocus = item

\* line 179-187: look the name up; an unknown name throws, else
\* await remote.moveUp(2)
Menu179 ==
  /\ Top = "menu179"
  /\ LET target == MenuLookup(MenuItems, menu.menuName) IN
       IF MenuTargetMissing(target)
         THEN /\ menu' = [menu EXCEPT !.target = target, !.error = "Unknown menu item"]
              /\ Throw
              /\ pkm' = pkm
         ELSE /\ menu' = [menu EXCEPT !.target = target]
              /\ stack' = SubSeq(stack, 1, Len(stack) - 1) \o <<"menu188", "move", "pkm49">>
              /\ pkm' = PkmFrame(remote.keys.UP, MenuUpMoves)
              /\ outcome' = outcome
  /\ UNCHANGED <<add, journey>>
  /\ UNCHANGED <<op, arg, retTok, retBool, now, focus, keyTrace, lastKeyAt,
                 remote, pk, hold, wfc, nav, lastRead, wfcReads, wfcCalls, logs, menuFocus>>

\* line 188-192: moveUp returned; the anchor assertion passes when Home is
\* focused, then direction and steps are computed; it throws when Home
\* has not become focused
Menu188 ==
  /\ Top = "menu188"
  /\ \E d \in Latencies : now' = Rebase(now) + d
  /\ lastKeyAt' = Rebase(lastKeyAt)
  /\ IF MenuAnchorFocused(menuFocus)
       THEN /\ menu' = [menu EXCEPT !.reads = menu.reads + 1, !.anchorRead = menuFocus,
                                    !.direction = MenuDirection(menu.target.index),
                                    !.steps = MenuSteps(menu.target.index), !.i = 0]
            /\ Goto("menu196")
            /\ outcome' = outcome
       ELSE /\ menu' = [menu EXCEPT !.reads = menu.reads + 1, !.anchorRead = menuFocus,
                                    !.error = "expect"]
            /\ Throw
  /\ UNCHANGED <<add, journey>>
  /\ UNCHANGED <<op, arg, retTok, retBool, focus, keyTrace,
                 remote, pkm, pk, hold, wfc, nav, lastRead, wfcReads, wfcCalls, logs, menuFocus>>

\* lines 196, 204: the loop test of the branch taken
Menu196 ==
  /\ Top = "menu196"
  /\ IF MenuLoopCond(menu.i, menu.steps, menu.maxSteps)
       THEN Goto("menu197")
       ELSE Goto("menu213")
  /\ UNCHANGED <<add, journey>>
  /\ UNCHANGED <<op, arg, outcome, retTok, retBool, now, focus, keyTrace, lastKeyAt,
                 remote, pkm, pk, hold, wfc, nav, lastRead, wfcReads, wfcCalls, logs,
                 menuFocus, menu>>

\* lines 197-201, 205-209: const isFocused = await
\* target.item.getAttribute('data-focused'); break when it is 'focused',
\* else await remote.moveRight() / remote.moveLeft()
Menu197_MovesAnyway ==
  /\ Top = "menu197"
  /\ \E d \in Latencies : now' = now + d
  /\ menu' = [menu EXCEPT !.reads = menu.reads + 1]
  /\ stack' = SubSeq(stack, 1, Len(stack) - 1) \o <<"menu201", "move", "pkm49">>
  /\ pkm' = PkmFrame(MenuLateralKey(menu.direction, remote.keys), 1)
  /\ UNCHANGED <<add, journey>>
  /\ UNCHANGED <<op, arg, outcome, retTok, retBool, focus, keyTrace, lastKeyAt,
                 remote, pk, hold, wfc, nav, lastRead, wfcReads, wfcCalls, logs, menuFocus>>
Menu197 ==
  /\ Top = "menu197"
  /\ \E d \in Latencies : now' = now + d
  /\ menu' = [menu EXCEPT !.reads = menu.reads + 1]
  /\ IF MenuItemFocused(menu.target.item, menuFocus)
       THEN /\ Goto("menu213")
            /\ pkm' = pkm
       ELSE /\ stack' = SubSeq(stack, 1, Len(stack) - 1) \o <<"menu201", "move", "pkm49">>
            /\ pkm' = PkmFrame(MenuLateralKey(menu.direction, remote.keys), 1)
  /\ UNCHANGED <<add, journey>>
  /\ UNCHANGED <<op, arg, outcome, retTok, retBool, focus, keyTrace, lastKeyAt,
                 remote, pk, hold, wfc, nav, lastRead, wfcReads, wfcCalls, logs, menuFocus>>

\* lines 196, 204: the move returned: i++
Menu201 ==
  /\ Top = "menu201"
  /\ now' = Rebase(now)
  /\ lastKeyAt' = Rebase(lastKeyAt)
  /\ menu' = [menu EXCEPT !.i = menu.i + 1]
  /\ Goto("menu196")
  /\ UNCHANGED <<add, journey>>
  /\ UNCHANGED <<op, arg, outcome, retTok, retBool, focus, keyTrace,
                 remote, pkm, pk, hold, wfc, nav, lastRead, wfcReads, wfcCalls, logs, menuFocus>>

\* line 213-214: await expect(target.item).toHaveAttribute('data-focused',
\* 'focused'); return target.item.  expect throws at once for a value
\* that is no locator, and throws when the item has not become focused.
Menu213 ==
  /\ Top = "menu213"
  /\ \E d \in Latencies : now' = now + d
  /\ IF menu.target.item = Undefined
       THEN /\ menu' = [menu EXCEPT !.error = "expect: not a Locator"]
            /\ Throw
       ELSE IF MenuItemFocused(menu.target.item, menuFocus)
         THEN /\ menu' = [menu EXCEPT !.reads = menu.reads + 1, !.finalRead = menuFocus,
                                      !.result = menu.target.item]
              /\ Return
              /\ outcome' = outcome
         ELSE /\ menu' = [menu EXCEPT !.reads = menu.reads + 1, !.finalRead = menuFocus,
                                      !.error = "expect"]
              /\ Throw
  /\ UNCHANGED <<add, journey>>
  /\ UNCHANGED <<op, arg, retTok, retBool, focus, keyTrace, lastKeyAt,
                 remote, pkm, pk, hold, wfc, nav, lastRead, wfcReads, wfcCalls, logs, menuFocus>>

\* ---------------------- HomeScreenPage.addAppToFavoritesFromAppsPage
\* (lines of src/src/pages/HomeScreenPage.js)
\* line 163: for (let i = 0; i < NAVIGATION_LIMITS.MAX_DOWN_STEPS; i++)
AddDownLoopCond_OffByOne(i) == i <= DownLimit
AddDownLoopCond(i) == i < DownLimit

\* lines 158-161: isVideoRailItemFocused: (await focused.count()) > 0
IsVideoRailItemFocused(uiFocus) == uiFocus # NoElem

\* line 185: for (let i = 0; i < NAVIGATION_LIMITS.MAX_APP_SEARCH_STEPS; i++)
AddSearchLoopCond(i) == i < SearchLimit

\* line 188: if (currentTestId === appName)
AddMatches_Normalised(currentTestId, appName) ==
  Truthy(currentTestId) /\ normalise(currentTestId) = normalise(appName)
AddMatches(currentTestId, appName) == currentTestId = appName

\* line 192: if (currentTestId === null || (i > 0 && currentTestId === previousTestId))
AddSearchFails_NullOnly(currentTestId, i, previousTestId) == currentTestId = Null
AddSearchFails_RepeatOnly(currentTestId, i, previousTestId) ==
  i > 0 /\ currentTestId = previousTestId
AddSearchFails(currentTestId, i, previousTestId) ==
  currentTestId = Null \/ (i > 0 /\ currentTestId = previousTestId)

\* line 208: if (newTestId === currentTestId)
AddStalled(newTestId, currentTestId) == newTestId = currentTestId

\* line 215: if (finalTestId !== appName)
AddFinalMismatch_Never(finalTestId, appName) == FALSE
AddFinalMismatch(finalTestId, appName) == finalTestId # appName

\* line 163-164: loop test, then await this.remote.moveDown()
Add163 ==
  /\ Top = "add163"
  /\ IF AddDownLoopCond(add.i)
       THEN /\ stack' = SubSeq(stack, 1, Len(stack) - 1) \o <<"add166", "move", "pkm49">>
            /\ pkm' = PkmFrame(remote.keys.DOWN, 1)
       ELSE /\ Goto("add176")
            /\ pkm' = pkm
  /\ UNCHANGED <<menuVars, add, journey>>
  /\ UNCHANGED <<op, arg, outcome, retTok, retBool, now, focus, keyTrace, lastKeyAt,
                 remote, pk, hold, wfc, nav, lastRead, wfcReads, wfcCalls, logs>>

\* line 166-171: moveDown returned; const hasFocus = await
\* isVideoRailItemFocused(); break when an item is focused
Add166 ==
  /\ Top = "add166"
  /\ \E d \in Latencies : now' = Rebase(now) + d
  /\ lastKeyAt' = Rebase(lastKeyAt)
  /\ IF IsVideoRailItemFocused(focus)
       THEN Goto("add176") /\ add' = add
       ELSE IF add.i < DownLimit - 1
         THEN Goto("add172") /\ add' = add
         ELSE Goto("add163") /\ add' = [add EXCEPT !.i = add.i + 1]
  /\ UNCHANGED <<menuVars, journey>>
  /\ UNCHANGED <<op, arg, outcome, retTok, retBool, focus, keyTrace,
                 remote, pkm, pk, hold, wfc, nav, lastRead, wfcReads, wfcCalls, logs>>

\* line 172: await this.page.waitForLoadState('domcontentloaded'); i++
Add172 ==
  /\ Top = "add172"
  /\ \E d \in Latencies : now' = now + d
  /\ add' = [add EXCEPT !.i = add.i + 1]
  /\ Goto("add163")
  /\ UNCHANGED <<menuVars, journey>>
  /\ UNCHANGED <<op, arg, outcome, retTok, retBool, focus, keyTrace, lastKeyAt,
                 remote, pkm, pk, hold, wfc, nav, lastRead, wfcReads, wfcCalls, logs>>

\* line 176-183: if (!(await isVideoRailItemFocused())) warn and return
\* false; else let previousTestId = null and the search loop starts
Add176 ==
  /\ Top = "add176"
  /\ \E d \in Latencies : now' = now + d
  /\ IF ~IsVideoRailItemFocused(focus)
       THEN /\ add' = [add EXCEPT !.warned = TRUE]
            /\ Return
            /\ retBool' = FALSE
       ELSE /\ add' = [add EXCEPT !.previousTestId = Null, !.i = 0]
            /\ Goto("add185")
            /\ retBool' = retBool
  /\ UNCHANGED <<menuVars, journey>>
  /\ UNCHANGED <<op, arg, outcome, retTok, focus, keyTrace, lastKeyAt,
                 remote, pkm, pk, hold, wfc, nav, lastRead, wfcReads, wfcCalls, logs>>

\* line 185-186: loop test, then const currentTestId = await
\* getFocusedTestId(); the loop over, line 214: const finalTestId = await
\* getFocusedTestId()
Add185 ==
  /\ Top = "add185"
  /\ IF AddSearchLoopCond(add.i)
       THEN Call("add186", "get66")
       ELSE Call("add215", "get66")
  /\ UNCHANGED <<menuVars, add, journey>>
  /\ UNCHANGED <<op, arg, outcome, retTok, retBool, now, focus, keyTrace, lastKeyAt,
                 remote, pkm, pk, hold, wfc, nav, lastRead, wfcReads, wfcCalls, logs>>

\* line 186-199: the accessor returned: const currentTestId = ...; break
\* on the app's id; a null id or a repeated id logs and returns false;
\* else previousTestId = currentTestId; await this.remote.moveRight()
Add186 ==
  /\ Top = "add186"
  /\ IF AddMatches(retTok, add.appName)
       THEN /\ add' = [add EXCEPT !.currentTestId = retTok]
            /\ Call("add215", "get66")
            /\ UNCHANGED <<logs, retBool, pkm>>
       ELSE IF AddSearchFails(retTok, add.i, add.previousTestId)
         THEN /\ add' = [add EXCEPT !.currentTestId = retTok]
              /\ logs' = Append(logs, LogRecord("Video rail app search", add.appName,
                                                add.previousTestId))
              /\ Return
              /\ retBool' = FALSE
              /\ pkm' = pkm
         ELSE /\ add' = [add EXCEPT !.currentTestId = retTok, !.previousTestId = retTok]
              /\ stack' = SubSeq(stack, 1, Len(stack) - 1) \o <<"add201", "move", "pkm49">>
              /\ pkm' = PkmFrame(remote.keys.RIGHT, 1)
              /\ UNCHANGED <<logs, retBool>>
  /\ UNCHANGED <<menuVars, journey>>
  /\ UNCHANGED <<op, arg, outcome, retTok, now, focus, keyTrace, lastKeyAt,
                 remote, pk, hold, wfc, nav, lastRead, wfcReads, wfcCalls>>

\* line 201-206: moveRight returned; const newTestId = await
\* waitForFocusChange(this.page, getFocusedTestId, currentTestId, TIMEOUTS.POLLING)
Add201 ==
  /\ Top = "add201"
  /\ now' = Rebase(now)
  /\ lastKeyAt' = Rebase(lastKeyAt)
  /\ wfc' = WfcFrame(add.currentTestId, PollLimit, now')
  /\ wfcCalls' = wfcCalls + 1
  /\ wfcReads' = 0
  /\ Call("add208", "wfc30")
  /\ UNCHANGED <<menuVars, add, journey>>
  /\ UNCHANGED <<op, arg, outcome, retTok, retBool, focus, keyTrace,
                 remote, pkm, pk, hold, nav, lastRead, logs>>

\* line 201-211: waitForFocusChange returned: const newTestId = ...; an
\* unchanged id logs and returns false; else i++ and loop
Add208 ==
  /\ Top = "add208"
  /\ IF AddStalled(retTok, add.currentTestId)
       THEN /\ logs' = Append(logs, LogRecord("Video rail navigation (end of rail)",
                                             add.appName, add.currentTestId))
            /\ Return
            /\ retBool' = FALSE
            /\ add' = [add EXCEPT !.newTestId = retTok]
       ELSE /\ add' = [add EXCEPT !.newTestId = retTok, !.i = add.i + 1]
            /\ Goto("add185")
            /\ UNCHANGED <<logs, retBool>>
  /\ UNCHANGED <<menuVars, journey>>
  /\ UNCHANGED <<op, arg, outcome, retTok, now, focus, keyTrace, lastKeyAt,
                 remote, pkm, pk, hold, wfc, nav, lastRead, wfcReads, wfcCalls>>

\* line 214-220: the accessor returned: const finalTestId = ...; a
\* mismatch logs and returns false; else await this.remote.select()
Add215 ==
  /\ Top = "add215"
  /\ add' = [add EXCEPT !.finalTestId = retTok]
  /\ IF AddFinalMismatch(retTok, add.appName)
       THEN /\ logs' = Append(logs, LogRecord("Video rail final verification",
                                             add.appName, retTok))
            /\ Return
            /\ retBool' = FALSE
            /\ pk' = pk
       ELSE /\ stack' = SubSeq(stack, 1, Len(stack) - 1) \o <<"add223", "press", "pk36">>
            /\ pk' = remote.keys.SELECT
            /\ UNCHANGED <<logs, retBool>>
  /\ UNCHANGED <<menuVars, journey>>
  /\ UNCHANGED <<op, arg, outcome, retTok, now, focus, keyTrace, lastKeyAt,
                 remote, pkm, hold, wfc, nav, lastRead, wfcReads, wfcCalls>>

\* line 222-224: select returned; await expect(favButton).toHaveAttribute(
\* 'data-focused', 'true') passes or throws, as the UI has focused the
\* button or not; then await this.remote.select()
Add223 ==
  /\ Top = "add223"
  /\ \E d \in Latencies : now' = Rebase(now) + d
  /\ lastKeyAt' = Rebase(lastKeyAt)
  /\ \/ /\ stack' = SubSeq(stack, 1, Len(stack) - 1) \o <<"add226", "press", "pk36">>
        /\ pk' = remote.keys.SELECT
        /\ UNCHANGED <<add, outcome>>
     \/ /\ add' = [add EXCEPT !.error = "expect"]
        /\ Throw
        /\ pk' = pk
  /\ UNCHANGED <<menuVars, journey>>
  /\ UNCHANGED <<op, arg, retTok, retBool, focus, keyTrace,
                 remote, pkm, hold, wfc, nav, lastRead, wfcReads, wfcCalls, logs>>

\* line 226-228: select returned; await this.waitForHomeScreen() passes or
\* throws, as the home screen has come up or not; then await
\* this.remote.select()
Add226 ==
  /\ Top = "add226"
  /\ \E d \in Latencies : now' = Rebase(now) + d
  /\ lastKeyAt' = Rebase(lastKeyAt)
  /\ \/ /\ stack' = SubSeq(stack, 1, Len(stack) - 1) \o <<"add230", "press", "pk36">>
        /\ pk' = remote.keys.SELECT
        /\ UNCHANGED <<add, outcome>>
     \/ /\ add' = [add EXCEPT !.error = "waitForHomeScreen"]
        /\ Throw
        /\ pk' = pk
  /\ UNCHANGED <<menuVars, journey>>
  /\ UNCHANGED <<op, arg, retTok, retBool, focus, keyTrace,
                 remote, pkm, hold, wfc, nav, lastRead, wfcReads, wfcCalls, logs>>

\* line 230: select returned; return true
Add230 ==
  /\ Top = "add230"
  /\ Return
  /\ retBool' = TRUE
  /\ UNCHANGED <<menuVars, add, journey>>
  /\ UNCHANGED <<op, arg, outcome, retTok, now, focus, keyTrace, lastKeyAt,
                 remote, pkm, pk, hold, wfc, nav, lastRead, wfcReads, wfcCalls, logs>>

\* ---------------------- HomeScreenPage.removeAppFromFavoritesIfExists
\* line 275: if (deleteButtonState === 'disabled')
RemDeleteDisabled_Never(deleteButtonState) == FALSE
RemDeleteDisabled(deleteButtonState) == deleteButtonState = "disabled"

\* line 258-263: if (!(await this.isAppInFavorites(appName))) return false;
\* const found = await this.navigateToApp(appName).  Whether the rail holds
\* a list item of that name is a state of the external UI.
Rem258 ==
  /\ Top = "rem258"
  /\ \E d \in Latencies : now' = now + d
  /\ \E present \in BOOLEAN :
       IF ~present
         THEN /\ journey' = [journey EXCEPT !.inFavorites = "no"]
              /\ Return
              /\ retBool' = FALSE
              /\ nav' = nav
         ELSE /\ journey' = [journey EXCEPT !.inFavorites = "yes"]
              /\ Call("rem264", "nav86")
              /\ nav' = [NoNav EXCEPT !.appName = journey.appName, !.maxSteps = RailLimit]
              /\ retBool' = retBool
  /\ UNCHANGED <<menuVars, add>>
  /\ UNCHANGED <<op, arg, outcome, retTok, focus, keyTrace, lastKeyAt,
                 remote, pkm, pk, hold, wfc, lastRead, wfcReads, wfcCalls, logs>>

\* line 264-269: navigateToApp returned: if (!found) return false; else
\* await this.remote.holdSelect(TIMEOUTS.LONG_PRESS_DURATION)
Rem264 ==
  /\ Top = "rem264"
  /\ now' = Rebase(now)
  /\ lastKeyAt' = Rebase(lastKeyAt)
  /\ IF ~retBool
       THEN /\ journey' = [journey EXCEPT !.found = "no"]
            /\ Return
            /\ hold' = hold
       ELSE /\ journey' = [journey EXCEPT !.found = "yes"]
            /\ Call("rem274", "hold101")
            /\ hold' = [duration |-> LONG_PRESS_DURATION, downAt |-> 0]
  /\ retBool' = FALSE
  /\ UNCHANGED <<menuVars, add>>
  /\ UNCHANGED <<op, arg, outcome, retTok, focus, keyTrace,
                 remote, pkm, pk, wfc, nav, lastRead, wfcReads, wfcCalls, logs>>

\* line 271-281: holdSelect returned; const deleteButtonState = await
\* deleteButton.getAttribute('data-focused'), which rejects when the edit
\* controls have not come up; 'disabled': await this.remote.back(); else
\* await this.remote.moveDown()
Rem274 ==
  /\ Top = "rem274"
  /\ \E d \in Latencies : now' = Rebase(now) + d
  /\ lastKeyAt' = Rebase(lastKeyAt)
  /\ \/ \E st \in DeleteButtonStates :
          /\ journey' = [journey EXCEPT !.deleteButtonState = st]
          /\ outcome' = outcome
          /\ IF RemDeleteDisabled(st)
               THEN /\ stack' = SubSeq(stack, 1, Len(stack) - 1) \o <<"rem278", "press", "pk36">>
                    /\ pk' = remote.keys.BACK
                    /\ pkm' = pkm
               ELSE /\ stack' = SubSeq(stack, 1, Len(stack) - 1) \o <<"rem283", "move", "pkm49">>
                    /\ pkm' = PkmFrame(remote.keys.DOWN, 1)
                    /\ pk' = pk
     \/ /\ journey' = [journey EXCEPT !.error = "getAttribute"]
        /\ Throw
        /\ UNCHANGED <<pk, pkm>>
  /\ UNCHANGED <<menuVars, add>>
  /\ UNCHANGED <<op, arg, retTok, retBool, focus, keyTrace,
                 remote, hold, wfc, nav, lastRead, wfcReads, wfcCalls, logs>>

\* line 277-278: back returned; return false
Rem278 ==
  /\ Top = "rem278"
  /\ Return
  /\ retBool' = FALSE
  /\ UNCHANGED pageVars
  /\ UNCHANGED <<op, arg, outcome, retTok, now, focus, keyTrace, lastKeyAt,
                 remote, pkm, pk, hold, wfc, nav, lastRead, wfcReads, wfcCalls, logs>>

\* line 281-283: moveDown returned; await this.remote.select()
Rem283 ==
  /\ Top = "rem283"
  /\ now' = Rebase(now)
  /\ lastKeyAt' = Rebase(lastKeyAt)
  /\ stack' = SubSeq(stack, 1, Len(stack) - 1) \o <<"rem286", "press", "pk36">>
  /\ pk' = remote.keys.SELECT
  /\ UNCHANGED pageVars
  /\ UNCHANGED <<op, arg, outcome, retTok, retBool, focus, keyTrace,
                 remote, pkm, hold, wfc, nav, lastRead, wfcReads, wfcCalls, logs>>

\* line 283-286: select returned; return true
Rem286 ==
  /\ Top = "rem286"
  /\ Return
  /\ retBool' = TRUE
  /\ UNCHANGED pageVars
  /\ UNCHANGED <<op, arg, outcome, retTok, now, focus, keyTrace, lastKeyAt,
                 remote, pkm, pk, hold, wfc, nav, lastRead, wfcReads, wfcCalls, logs>>

\* --------------------------- HomeScreenPage.ensureNetflixInFavorites
\* line 246: if (!added)
EnsNotAdded_Never(added) == FALSE
EnsNotAdded(added) == ~added

\* line 239-244: if (await this.isAppInFavorites('Netflix')) return; else
\* await this.navigateToAppsPage(), whose line 134 is
\* await this.nav.navigateToMenuItemByName(this.remote, 'Apps')
Ens239 ==
  /\ Top = "ens239"
  /\ \E d \in Latencies : now' = now + d
  /\ \E present \in BOOLEAN :
       IF present
         THEN /\ journey' = [journey EXCEPT !.inFavorites = "yes"]
              /\ Return
              /\ menu' = menu
         ELSE /\ journey' = [journey EXCEPT !.inFavorites = "no"]
              /\ stack' = SubSeq(stack, 1, Len(stack) - 1) \o <<"ens245", "apps135", "menu179">>
              /\ menu' = [NoMenu EXCEPT !.menuName = "Apps", !.maxSteps = MAX_MENU_STEPS]
  /\ UNCHANGED <<menuFocus, add>>
  /\ UNCHANGED <<op, arg, outcome, retTok, retBool, focus, keyTrace, lastKeyAt,
                 remote, pkm, pk, hold, wfc, nav, lastRead, wfcReads, wfcCalls, logs>>

\* navigateToAppsPage, line 135: the menu resolution returned;
\* await this.remote.select()
Apps135 ==
  /\ Top = "apps135"
  /\ now' = Rebase(now)
  /\ lastKeyAt' = Rebase(lastKeyAt)
  /\ stack' = SubSeq(stack, 1, Len(stack) - 1) \o <<"apps137", "press", "pk36">>
  /\ pk' = remote.keys.SELECT
  /\ UNCHANGED pageVars
  /\ UNCHANGED <<op, arg, outcome, retTok, retBool, focus, keyTrace,
                 remote, pkm, hold, wfc, nav, lastRead, wfcReads, wfcCalls, logs>>

\* navigateToAppsPage, lines 137-140: the lists container, Featured Apps
\* and Video are expected to be visible; an expectation not met throws
Apps137 ==
  /\ Top = "apps137"
  /\ \E d \in Latencies : now' = Rebase(now) + d
  /\ lastKeyAt' = Rebase(lastKeyAt)
  /\ \/ /\ Return
        /\ UNCHANGED <<outcome, journey>>
     \/ /\ journey' = [journey EXCEPT !.error = "expect"]
        /\ Throw
  /\ UNCHANGED <<menuVars, add>>
  /\ UNCHANGED <<op, arg, retTok, retBool, focus, keyTrace,
                 remote, pkm, pk, hold, wfc, nav, lastRead, wfcReads, wfcCalls, logs>>

\* line 245: const added = await this.addAppToFavoritesFromAppsPage('Netflix')
Ens245 ==
  /\ Top = "ens245"
  /\ now' = Rebase(now)
  /\ lastKeyAt' = Rebase(lastKeyAt)
  /\ Call("ens246", "add163")
  /\ add' = [NoAdd EXCEPT !.appName = Netflix]
  /\ UNCHANGED <<menuVars, journey>>
  /\ UNCHANGED <<op, arg, outcome, retTok, retBool, focus, keyTrace,
                 remote, pkm, pk, hold, wfc, nav, lastRead, wfcReads, wfcCalls, logs>>

\* line 246-249: if (!added) throw new Error('Netflix app not found in the
\* Video rail on Apps page'); else the function ends
Ens246 ==
  /\ Top = "ens246"
  /\ IF EnsNotAdded(retBool)
       THEN /\ journey' = [journey EXCEPT !.added = "no", !.error = "Netflix app not found"]
            /\ Throw
       ELSE /\ journey' = [journey EXCEPT !.added = "yes"]
            /\ Return
            /\ outcome' = outcome
  /\ UNCHANGED <<menuVars, add>>
  /\ UNCHANGED <<op, arg, retTok, retBool, now, focus, keyTrace, lastKeyAt,
                 remote, pkm, pk, hold, wfc, nav, lastRead, wfcReads, wfcCalls, logs>>

\* The menu bar is read by the menu resolution only and the Video rail by
\* the add journey only: each indicator changes at any moment of the part
\* of the operation that reads it.
InMenuResolution == \E k \in DOMAIN stack : stack[k] = "apps135"
InAddJourney == \E k \in DOMAIN stack : stack[k] = "ens246"

MenuBarUIUpdate ==
  /\ InMenuResolution
  /\ MenuUIUpdate

AppsPageUIUpdate ==
  /\ outcome = "running"
  /\ InAddJourney
  /\ \E f \in AppsPageFocusStates \ {focus} : focus' = f
  /\ UNCHANGED pageVars
  /\ UNCHANGED <<op, arg, stack, outcome, retTok, retBool, now, keyTrace, lastKeyAt,
                 remote, pkm, pk, hold, wfc, nav, lastRead, wfcReads, wfcCalls, logs>>

\* a well-behaved menu bar: an Up move that reaches the bar focuses Home,
\* a Left or Right move shifts the focus by one position, clamped at the
\* ends of the bar
IdealMenuShift(uiFocus, key) ==
  CASE key = "ArrowUp" -> MenuItems["Home"].item
    [] key = "ArrowRight" ->
         IF uiFocus = NoMenuItem THEN uiFocus
         ELSE IF uiFocus < MenuItems["Apps"].item THEN uiFocus + 1 ELSE uiFocus
    [] key = "ArrowLeft" ->
         IF uiFocus = NoMenuItem THEN uiFocus
         ELSE IF uiFocus > MenuItems["Search"].item THEN uiFocus - 1 ELSE uiFocus
    [] OTHER -> uiFocus

\* pressKey, line 36, against the well-behaved menu bar: keyboard.press
\* resolves when the page has handled the key, the focus has moved
Pk36_IdealMenu ==
  /\ Top = "pk36"
  /\ \E d \in Latencies : now' = now + d
  /\ keyTrace' = Append(keyTrace, KeyPress(pk))
  /\ lastKeyAt' = now'
  /\ Goto("pk37")
  /\ menuFocus' = IdealMenuShift(menuFocus, pk)
  /\ UNCHANGED <<menu, add, journey>>
  /\ UNCHANGED <<op, arg, outcome, retTok, retBool, focus,
                 remote, pkm, pk, hold, wfc, nav, lastRead, wfcReads, wfcCalls, logs>>

\* ------------------------------------------------------- the scenario
\* the awaited operation returned to the test scenario
Main ==
  /\ Top = "main"
  /\ stack' = <<>>
  /\ outcome' = "returned"
  /\ UNCHANGED pageVars
  /\ UNCHANGED <<op, arg, retTok, retBool, now, focus, keyTrace, lastKeyAt,
                 remote, pkm, pk, hold, wfc, nav, lastRead, wfcReads, wfcCalls, logs>>

\* state after construction of the page objects, before the call
InitCommon ==
  /\ outcome = "running"
  /\ retTok = Null
  /\ retBool = FALSE
  /\ now = 0
  /\ focus \in FocusStates
  /\ keyTrace = <<>>
  /\ lastKeyAt = 0
  /\ remote = [keyPressDelay |-> KEY_PRESS_DELAY, keys |-> Keys]
  /\ lastRead = Null
  /\ wfcReads = 0
  /\ logs = <<>>

\* the scenario calls one Input Driver operation
InitRemote ==
  /\ InitCommon
  /\ wfc = NoWfc /\ nav = NoNav /\ wfcCalls = 0
  /\ menu = NoMenu /\ menuFocus = NoMenuItem /\ add = NoAdd /\ journey = NoJourney
  /\ \/ /\ op \in MoveOps
        /\ \E n \in 0..MaxTimes :
             /\ arg = [n |-> n, tok |-> Null]
             /\ pkm = PkmFrame(MoveKey(op, Keys), n)
        /\ stack = <<"main", "move", "pkm49">>
        /\ pk = "" /\ hold = NoHold
     \/ /\ op \in PressOps
        /\ arg = [n |-> 1, tok |-> Null]
        /\ pk = PressOpKey(op, Keys)
        /\ stack = <<"main", "press", "pk36">>
        /\ pkm = NoPkm /\ hold = NoHold
     \/ /\ op = "holdSelect"
        /\ \E n \in HoldDurations :
             /\ arg = [n |-> n, tok |-> Null]
             /\ hold = [duration |-> n, downAt |-> 0]
        /\ stack = <<"main", "hold101">>
        /\ pkm = NoPkm /\ pk = ""

\* the scenario calls waitForFocusChange on the rail's accessor
InitFocus ==
  /\ InitCommon
  /\ op = "waitForFocusChange"
  /\ \E p \in PreviousValues, t \in WfcTimeouts :
       /\ arg = [n |-> t, tok |-> p]
       /\ wfc = WfcFrame(p, t, 0)
  /\ stack = <<"main", "wfc30">>
  /\ pkm = NoPkm /\ pk = "" /\ hold = NoHold /\ nav = NoNav /\ wfcCalls = 1
  /\ menu = NoMenu /\ menuFocus = NoMenuItem /\ add = NoAdd /\ journey = NoJourney

\* the scenario calls navigateToApp(appName, maxSteps)
InitNav ==
  /\ InitCommon
  /\ op = "navigateToApp"
  /\ \E a \in AppNames, m \in 0..MaxSteps :
       /\ arg = [n |-> m, tok |-> a]
       /\ nav = [NoNav EXCEPT !.appName = a, !.maxSteps = m]
  /\ stack = <<"main", "nav86">>
  /\ pkm = NoPkm /\ pk = "" /\ hold = NoHold /\ wfc = NoWfc /\ wfcCalls = 0
  /\ menu = NoMenu /\ menuFocus = NoMenuItem /\ add = NoAdd /\ journey = NoJourney

\* the scenario calls navigateToMenuItemByName(remote, menuName, maxSteps);
\* the rail is not involved
InitMenu ==
  /\ InitCommon
  /\ focus = NoElem
  /\ op = "navigateToMenuItemByName"
  /\ \E name \in MenuNameInputs, m \in MenuBudgets :
       /\ arg = [n |-> m, tok |-> Null]
       /\ menu = [NoMenu EXCEPT !.menuName = name, !.maxSteps = m]
  /\ menuFocus \in MenuFocusStates
  /\ stack = <<"main", "menu179">>
  /\ pkm = NoPkm /\ pk = "" /\ hold = NoHold /\ wfc = NoWfc /\ nav = NoNav /\ wfcCalls = 0
  /\ add = NoAdd /\ journey = NoJourney

\* the scenario calls addAppToFavoritesFromAppsPage(appName) on the Apps
\* page; the menu bar is not involved
InitAdd ==
  /\ InitCommon
  /\ op = "addAppToFavoritesFromAppsPage"
  /\ \E a \in AddAppNames :
       /\ arg = [n |-> 0, tok |-> a]
       /\ add = [NoAdd EXCEPT !.appName = a]
  /\ stack = <<"main", "add163">>
  /\ pkm = NoPkm /\ pk = "" /\ hold = NoHold /\ wfc = NoWfc /\ nav = NoNav /\ wfcCalls = 0
  /\ menu = NoMenu /\ menuFocus = NoMenuItem /\ journey = NoJourney

\* the scenario calls removeAppFromFavoritesIfExists(appName) on the home
\* screen; the menu bar is not involved
InitRemove ==
  /\ InitCommon
  /\ op = "removeAppFromFavoritesIfExists"
  /\ \E a \in RemoveAppNames :
       /\ arg = [n |-> 0, tok |-> a]
       /\ journey = [NoJourney EXCEPT !.appName = a]
  /\ stack = <<"main", "rem258">>
  /\ pkm = NoPkm /\ pk = "" /\ hold = NoHold /\ wfc = NoWfc /\ nav = NoNav /\ wfcCalls = 0
  /\ menu = NoMenu /\ menuFocus = NoMenuItem /\ add = NoAdd

\* the scenario calls ensureNetflixInFavorites() on the home screen
InitEnsure ==
  /\ InitCommon
  /\ focus = NoElem
  /\ op = "ensureNetflixInFavorites"
  /\ arg = [n |-> 0, tok |-> Netflix]
  /\ journey = [NoJourney EXCEPT !.appName = Netflix]
  /\ stack = <<"main", "ens239">>
  /\ pkm = NoPkm /\ pk = "" /\ hold = NoHold /\ wfc = NoWfc /\ nav = NoNav /\ wfcCalls = 0
  /\ menu = NoMenu /\ menuFocus \in MenuFocusStates /\ add = NoAdd

NextRemote ==
  \/ UIUpdate
  \/ Pkm49 \/ Pkm50 \/ Pk36 \/ Pk37 \/ Pk38
  \/ MoveDone \/ PressDone
  \/ Hold101 \/ Hold102 \/ Hold103
  \/ Main

NextFocus ==
  \/ UIUpdate
  \/ Get66 \/ Get69
  \/ Wfc30 \/ Wfc31 \/ Wfc35
  \/ Main

NextNav ==
  \/ UIUpdate
  \/ Pkm49 \/ Pkm50 \/ Pk36 \/ Pk37 \/ Pk38
  \/ MoveDone
  \/ Get66 \/ Get69
  \/ Wfc30 \/ Wfc31 \/ Wfc35
  \/ Nav86 \/ Nav92 \/ Nav93 \/ Nav99 \/ Nav101 \/ Nav114
  \/ Main

NextMenu ==
  \/ MenuUIUpdate
  \/ Pkm49 \/ Pkm50 \/ Pk36 \/ Pk37 \/ Pk38
  \/ MoveDone
  \/ Menu179 \/ Menu188 \/ Menu196 \/ Menu197 \/ Menu201 \/ Menu213
  \/ Main

NextAdd ==
  \/ UIUpdate
  \/ Pkm49 \/ Pkm50 \/ Pk36 \/ Pk37 \/ Pk38
  \/ MoveDone \/ PressDone
  \/ Get66 \/ Get69
  \/ Wfc30 \/ Wfc31 \/ Wfc35
  \/ Add163 \/ Add166 \/ Add172 \/ Add176 \/ Add185 \/ Add186 \/ Add201 \/ Add208
  \/ Add215 \/ Add223 \/ Add226 \/ Add230
  \/ Main

\* the menu resolution against the well-behaved menu bar
NextMenuIdeal ==
  \/ Pkm49 \/ Pkm50 \/ Pk36_IdealMenu \/ Pk37 \/ Pk38
  \/ MoveDone
  \/ Menu179 \/ Menu188 \/ Menu196 \/ Menu197 \/ Menu201 \/ Menu213
  \/ Main

NextRemove ==
  \/ UIUpdate
  \/ Pkm49 \/ Pkm50 \/ Pk36 \/ Pk37 \/ Pk38
  \/ MoveDone \/ PressDone
  \/ Hold101 \/ Hold102 \/ Hold103
  \/ Get66 \/ Get69
  \/ Wfc30 \/ Wfc31 \/ Wfc35
  \/ Nav86 \/ Nav92 \/ Nav93 \/ Nav99 \/ Nav101 \/ Nav114
  \/ Rem258 \/ Rem264 \/ Rem274 \/ Rem278 \/ Rem283 \/ Rem286
  \/ Main

NextEnsure ==
  \/ MenuBarUIUpdate \/ AppsPageUIUpdate
  \/ Pkm49 \/ Pkm50 \/ Pk36 \/ Pk37 \/ Pk38
  \/ MoveDone \/ PressDone
  \/ Get66 \/ Get69
  \/ Wfc30 \/ Wfc31 \/ Wfc35
  \/ Menu179 \/ Menu188 \/ Menu196 \/ Menu197 \/ Menu201 \/ Menu213
  \/ Add163 \/ Add166 \/ Add172 \/ Add176 \/ Add185 \/ Add186 \/ Add201 \/ Add208
  \/ Add215 \/ Add223 \/ Add226 \/ Add230
  \/ Ens239 \/ Apps135 \/ Apps137 \/ Ens245 \/ Ens246
  \/ Main

\* the scenario calls one of the searches
InitSearch == InitNav \/ InitMenu

\* the steps of the search called, against the part of the UI it observes
NextSearch ==
  \/ op = "navigateToApp" /\ NextNav
  \/ op = "navigateToMenuItemByName" /\ NextMenu

\* the Input Driver on its own
SpecRemote == InitRemote /\ [][NextRemote]_vars
\* the Focus Observer on its own
SpecFocus == InitFocus /\ [][NextFocus]_vars
\* the directional search of the Favourite Apps rail
SpecNav == InitNav /\ [][NextNav]_vars
\* the menu resolution
SpecMenu == InitMenu /\ [][NextMenu]_vars
\* the search of the Video rail and the addition to the favourites
SpecAdd == InitAdd /\ [][NextAdd]_vars
\* the removal of an app from the favourites
SpecRemove == InitRemove /\ [][NextRemove]_vars
\* making sure Netflix is among the favourites
SpecEnsure == InitEnsure /\ [][NextEnsure]_vars
\* either search: the directional search of the rail or the menu resolution
SpecSearch == InitSearch /\ [][NextSearch]_vars

\* the steps of the program alone: every await settles (the read returns,
\* the key is dispatched, the timer fires), and the continuation then runs
ProgramNextFocus == Get66 \/ Get69 \/ Wfc30 \/ Wfc31 \/ Wfc35 \/ Main
\* the Focus Observer whose awaits all settle; the UI remains free
FairSpecFocus == SpecFocus /\ WF_vars(ProgramNextFocus)

\* the menu resolution against the well-behaved menu bar, every await settling
FairSpecMenuIdeal == InitMenu /\ [][NextMenuIdeal]_vars /\ WF_vars(NextMenuIdeal)

\* maxSteps arguments of navigateToApp when the loops are followed to their end
LoopBudgets == {0, 1}
\* the scenario calls one of the operations that loop: waitForFocusChange,
\* navigateToApp, addAppToFavoritesFromAppsPage
InitLoops ==
  \/ InitFocus
  \/ InitNav /\ arg.tok = Stry /\ arg.n \in LoopBudgets
  \/ InitAdd
NextLoops ==
  \/ op = "waitForFocusChange" /\ NextFocus
  \/ op = "navigateToApp" /\ NextNav
  \/ op = "addAppToFavoritesFromAppsPage" /\ NextAdd
ProgramNextLoops ==
  \/ Pkm49 \/ Pkm50 \/ Pk36 \/ Pk37 \/ Pk38
  \/ MoveDone \/ PressDone
  \/ Get66 \/ Get69
  \/ Wfc30 \/ Wfc31 \/ Wfc35
  \/ Nav86 \/ Nav92 \/ Nav93 \/ Nav99 \/ Nav101 \/ Nav114
  \/ Add163 \/ Add166 \/ Add172 \/ Add176 \/ Add185 \/ Add186 \/ Add201 \/ Add208
  \/ Add215 \/ Add223 \/ Add226 \/ Add230
  \/ Main
\* the loops of the engine when every await settles; the UI remains free
FairSpecLoops == InitLoops /\ [][NextLoops]_vars /\ WF_vars(ProgramNextLoops)

TypeOK ==
  /\ outcome \in {"running", "returned", "threw"}
  /\ focus \in FocusStates \cup AppsPageFocusStates
  /\ retTok \in TestIds \cup {Netflix}
  /\ retBool \in BOOLEAN
  /\ now \in Nat

\* ================================================================ claims
\* a step of the program (not of the UI)
ProgramStep == stack' # stack

\* the frame on top returns to the scenario's await
ReturnsToScenario == stack' = <<"main">>

\* the step condition of C2_ShortCircuitAnyToken
ShortCircuitAnyTokenStep ==
  (/\ Top = "nav93" /\ nav.i = 0 /\ ProgramStep
   /\ normalise(retTok) = normalise(nav.appName))
  => (/\ ReturnsToScenario /\ retBool' = TRUE
      /\ keyTrace' = <<>> /\ wfcCalls' = 0)

\* the step condition of C2_ShortCircuit
ShortCircuitStep ==
  (/\ Top = "nav93" /\ nav.i = 0 /\ ProgramStep
   /\ Truthy(retTok)
   /\ normalise(retTok) = normalise(nav.appName))
  => (/\ ReturnsToScenario /\ retBool' = TRUE
      /\ keyTrace' = <<>> /\ wfcCalls' = 0)

\* the step condition of C3_StallDetection
StallDetectionStep ==
  /\ (Top = "nav101" /\ ProgramStep /\ retTok = nav.currentId)
       => (ReturnsToScenario /\ retBool' = FALSE /\ keyTrace' = keyTrace)
  /\ (nav'.i # nav.i) => (Top = "nav101" /\ retTok # nav.currentId)
  /\ (outcome # "running" \/ Top = "main") => keyTrace' = keyTrace

\* the step condition of C6_FirstChangeReturned
FirstChangeReturnedStep ==
  /\ (Top = "wfc31" /\ ProgramStep /\ retTok # wfc.previousValue)
       => (/\ ReturnsToScenario /\ retTok' = retTok
           /\ now' = now /\ wfcReads' = wfcReads)
  /\ (Top = "wfc31" /\ ProgramStep /\ retTok = wfc.previousValue)
       => Top' = "wfc35"
  /\ (outcome' = "returned" /\ retTok' # arg.tok)
       => (retTok' = lastRead' /\ now' = now /\ wfcReads' = wfcReads)

\* the step condition of C9_RepeatedMove
RepeatedMoveStep ==
  op \in MoveOps
    => /\ Len(keyTrace') <= arg.n
       /\ \A k \in DOMAIN keyTrace' : keyTrace'[k] = KeyPress(MoveKey(op, Keys))
       /\ outcome' = "returned" => Len(keyTrace') = arg.n
       /\ (keyTrace' # keyTrace /\ keyTrace # <<>>)
            => now >= lastKeyAt + KEY_PRESS_DELAY

\* C1: one call navigateToApp(appName, maxSteps) never has dispatched more
\* than maxSteps key events, each of them a press of Right, whatever the UI
\* does with the focus.
C1_SearchTermination ==
  /\ Len(keyTrace) <= arg.n
  /\ \A k \in DOMAIN keyTrace : keyTrace[k] = KeyPress("ArrowRight")

\* C1 witness: a search that returned after spending its whole budget of 2
\* moves.
C1_Witness == outcome = "returned" /\ arg.n = 2 /\ Len(keyTrace) = 2

C3_StallDetection == [][StallDetectionStep]_vars

\* C3 witness: the second move stalled: the search returned false with the
\* awaited token equal to the token read before the move.
C3_Witness ==
  /\ outcome = "returned" /\ ~retBool
  /\ nav.i = 1 /\ Len(keyTrace) = 2
  /\ nav.newId = nav.currentId
  /\ Len(logs) = 1 /\ logs[1].context = "app navigation in Favourite Apps rail"

\* C4: navigateToApp with maxSteps = 0 dispatches no key event, reads no
\* focus token, calls no waitForFocusChange, does not throw, and what it
\* returns is false (in particular when the focus differs from the target).
C4_ZeroBudget ==
  (op = "navigateToApp" /\ arg.n = 0)
    => /\ keyTrace = <<>>
       /\ wfcCalls = 0
       /\ Top \notin {"get66", "get69", "nav93"}
       /\ outcome # "threw"
       /\ (outcome = "returned" => retBool = FALSE)

\* C4 witness: a call with budget 0 returned false while the focused token
\* "X" differs from the target "y".
C4_Witness ==
  /\ outcome = "returned" /\ ~retBool /\ arg.n = 0
  /\ focus = StrX /\ nav.appName = Stry
  /\ keyTrace = <<>>

\* C5 as stated: the search never takes the budget-exhausted exit while the
\* focused token matches the target (budget 0 with the target focused, or
\* the token observed after the last permitted move being the target).
C5_FoundAtExhaustion ==
  Top = "nav114"
    => ~(/\ NavMatches(focus, nav.appName)
         /\ (nav.maxSteps = 0 \/ nav.newId = focus))

\* C6: waitForFocusChange returns the first token read that differs from
\* previousValue by strict equality (null against a string differs), and
\* returns it at once: no further read, no further delay; a token equal to
\* previousValue makes it wait for the next poll.
C6_FirstChangeReturned == [][FirstChangeReturnedStep]_vars

\* C6 witness: reads "X", "X", "y" with previousValue "X": "y" is returned
\* after three reads.
C6_Witness ==
  /\ outcome = "returned"
  /\ arg.tok = StrX /\ retTok = Stry /\ wfcReads = 3

\* C7: when no read differed from previousValue, waitForFocusChange returns
\* previousValue itself, not before the timeout has elapsed; the only error
\* that leaves it is the accessor's own (the focused element vanished
\* during a read), never one that signals the absence of change.
C7_TimeoutReturnsPrevious ==
  /\ (outcome = "returned" /\ (wfcReads = 0 \/ lastRead = arg.tok))
       => (retTok = arg.tok /\ now >= arg.n)
  /\ outcome = "threw" => focus = NoElem

\* C7 witness: two reads both gave previousValue "X" and the call returned
\* "X" once the timeout was over.
C7_Witness ==
  /\ outcome = "returned"
  /\ arg.tok = StrX /\ retTok = StrX /\ lastRead = StrX /\ wfcReads >= 2
  /\ now >= arg.n

\* the operation is a single press: select, back, or a move with times = 1
SinglePress == op \in PressOps \/ (op \in MoveOps /\ arg.n = 1)

\* C8: a single-press command has dispatched exactly one key press when it
\* returns, and it returns no earlier than KEY_PRESS_DELAY after the
\* dispatch.
C8_Settling ==
  (SinglePress /\ outcome = "returned")
    => /\ Len(keyTrace) = 1
       /\ keyTrace[1].type = "press"
       /\ now - lastKeyAt >= KEY_PRESS_DELAY

\* C8 witness: select() returned exactly KEY_PRESS_DELAY after its one
\* press.
C8_Witness ==
  /\ op = "select" /\ outcome = "returned"
  /\ Len(keyTrace) = 1 /\ now = lastKeyAt + KEY_PRESS_DELAY

\* C9: a move with times = n dispatches presses of its mapped key only,
\* never more than n, exactly n once it has returned (none for n = 0), and
\* each press after the first is dispatched only when the settling delay
\* of the one before is over.
C9_RepeatedMove == [][RepeatedMoveStep]_vars

\* C9 witness: moveRight(2) returned after two presses of ArrowRight.
C9_Witness ==
  /\ op = "moveRight" /\ arg.n = 2 /\ outcome = "returned"
  /\ keyTrace = <<KeyPress("ArrowRight"), KeyPress("ArrowRight")>>

\* C10: holdSelect(duration) dispatches a key-down of Enter, then, no
\* earlier than duration later, a key-up of Enter, and nothing else.
C10_Hold ==
  op = "holdSelect"
    => /\ \/ keyTrace = <<>>
          \/ keyTrace = <<[type |-> "down", key |-> "Enter"]>>
          \/ /\ keyTrace = <<[type |-> "down", key |-> "Enter"],
                             [type |-> "up", key |-> "Enter"]>>
             /\ lastKeyAt - hold.downAt >= arg.n
       /\ outcome = "returned" => Len(keyTrace) = 2

\* C10 witness: holdSelect(LONG_PRESS_DURATION) returned, the key-up
\* exactly LONG_PRESS_DURATION after the key-down.
C10_Witness ==
  /\ op = "holdSelect" /\ outcome = "returned" /\ arg.n = LONG_PRESS_DURATION
  /\ Len(keyTrace) = 2 /\ lastKeyAt - hold.downAt = LONG_PRESS_DURATION

\* C11: the key table of the RemoteControl is Up -> ArrowUp, Down ->
\* ArrowDown, Left -> ArrowLeft, Right -> ArrowRight, Select -> Enter,
\* Back -> Escape at every moment of every operation, and every key event
\* an operation dispatches carries the key the table gives for it.
C11_KeyTable ==
  /\ remote.keys = [UP |-> "ArrowUp", DOWN |-> "ArrowDown", LEFT |-> "ArrowLeft",
                    RIGHT |-> "ArrowRight", SELECT |-> "Enter", BACK |-> "Escape"]
  /\ \A k \in DOMAIN keyTrace :
       keyTrace[k].key = CASE op = "moveUp" -> "ArrowUp"
                           [] op = "moveDown" -> "ArrowDown"
                           [] op = "moveLeft" -> "ArrowLeft"
                           [] op = "moveRight" -> "ArrowRight"
                           [] op = "select" -> "Enter"
                           [] op = "holdSelect" -> "Enter"
                           [] op = "back" -> "Escape"

\* C11 witness: moveLeft(1) returned after one press of ArrowLeft, the
\* table as constructed.
C11_Witness ==
  /\ op = "moveLeft" /\ arg.n = 1 /\ outcome = "returned"
  /\ keyTrace = <<[type |-> "press", key |-> "ArrowLeft"]>>
  /\ remote.keys.LEFT = "ArrowLeft"

\* the call is navigateToMenuItemByName with a name of the menuItems table
KnownMenuCall == op = "navigateToMenuItemByName" /\ menu.menuName \in DOMAIN MenuItems

\* the key events of Left and Right dispatched so far
LateralMoves == {k \in DOMAIN keyTrace : keyTrace[k].key \in {"ArrowLeft", "ArrowRight"}}

\* C13 as stated: navigateToMenuItemByName called with a name that is not
\* a key of menuItems never dispatches a key event, never reads a focus
\* state, never returns, and the error it throws is the unknown-menu-item
\* error.
C13_UnknownTargetFailsFast ==
  (op = "navigateToMenuItemByName" /\ menu.menuName \notin DOMAIN MenuItems)
    => /\ keyTrace = <<>>
       /\ menu.reads = 0
       /\ outcome # "returned"
       /\ outcome = "threw" => menu.error = "Unknown menu item"

\* C14: for a name of the table, the first two key events are presses of
\* ArrowUp and every later one is a press of ArrowLeft or ArrowRight; the
\* anchor is read only after the two Up moves; a Left or Right move is
\* dispatched only after Home was read focused; and when the anchor
\* assertion read another state the call threw after the two Up moves
\* alone.
C14_AnchorFirst ==
  KnownMenuCall
    => /\ \A k \in DOMAIN keyTrace :
            /\ keyTrace[k].type = "press"
            /\ k <= 2 => keyTrace[k].key = "ArrowUp"
            /\ k > 2 => keyTrace[k].key \in {"ArrowLeft", "ArrowRight"}
       /\ menu.anchorRead # NotRead => Len(keyTrace) >= 2
       /\ Len(keyTrace) > 2 => menu.anchorRead = 1
       /\ menu.anchorRead \notin {NotRead, 1}
            => (outcome = "threw" /\ Len(keyTrace) = 2)

\* C14 witness: Channels was reached: two presses of ArrowUp, Home read
\* focused, then two presses of ArrowRight.
C14_Witness ==
  /\ KnownMenuCall /\ menu.menuName = "Channels" /\ outcome = "returned"
  /\ menu.anchorRead = 1
  /\ keyTrace = <<[type |-> "press", key |-> "ArrowUp"], [type |-> "press", key |-> "ArrowUp"],
                  [type |-> "press", key |-> "ArrowRight"],
                  [type |-> "press", key |-> "ArrowRight"]>>

\* C15: for a name of the table with index t and a budget maxSteps, the
\* call dispatches at most min(|t - 1|, maxSteps) Left/Right presses, all of
\* them ArrowRight when t > 1 and ArrowLeft otherwise, and none when the
\* target is Home; for Apps with budget 10 at most 5, none of them Left.
C15_LateralBound ==
  KnownMenuCall
    => LET t == MenuItems[menu.menuName].index
           dist == IF t >= 1 THEN t - 1 ELSE 1 - t
           bound == IF dist <= arg.n THEN dist ELSE arg.n
       IN /\ Cardinality(LateralMoves) <= bound
          /\ \A k \in LateralMoves :
               keyTrace[k].key = IF t > 1 THEN "ArrowRight" ELSE "ArrowLeft"
          /\ menu.menuName = "Home" => LateralMoves = {}
          /\ (menu.menuName = "Apps" /\ arg.n = 10)
               => (/\ Cardinality(LateralMoves) <= 5
                   /\ \A k \in LateralMoves : keyTrace[k].key # "ArrowLeft")

\* C15 witness: Apps with budget 10 returned after exactly 5 presses of
\* ArrowRight.
C15_Witness ==
  /\ KnownMenuCall /\ menu.menuName = "Apps" /\ arg.n = 10 /\ outcome = "returned"
  /\ Cardinality(LateralMoves) = 5
  /\ \A k \in LateralMoves : keyTrace[k].key = "ArrowRight"

\* C16: for a name of the table, a call that returned hands back the
\* target item and its final assertion read that item focused; a final
\* assertion that read anything else ended the call by a thrown assertion
\* error.
C16_HardPostcondition ==
  KnownMenuCall
    => /\ outcome = "returned"
            => /\ menu.result = MenuItems[menu.menuName].item
               /\ menu.finalRead = MenuItems[menu.menuName].item
               /\ menu.error = ""
       /\ (menu.finalRead # NotRead /\ menu.finalRead # MenuItems[menu.menuName].item)
            => (outcome = "threw" /\ menu.error = "expect")

\* C16 witness: Channels, two steps away, was not focused after the two
\* permitted moves (Tv Guide was): the call threw the assertion error.
C16_Witness ==
  /\ KnownMenuCall /\ menu.menuName = "Channels" /\ outcome = "threw"
  /\ menu.error = "expect" /\ menu.anchorRead = 1
  /\ Cardinality(LateralMoves) = 2 /\ menu.finalRead = 2

\* navigateToApp is over and did not throw
NavOver == op = "navigateToApp" /\ Top \in {"main", "idle"} /\ outcome # "threw"

\* the step budget is spent: the loop of line 92 has ended
BudgetExhausted == nav.i = nav.maxSteps

\* C17: navigateToApp is still running when it takes the budget-exhausted
\* exit; once it has logged a failure (stall or budget) it has not thrown
\* and what it returned is false; a call that ended not found ended by the
\* budget or by a stall; and the only error that leaves it is the
\* accessor's (the focused element vanished during a read), thrown before
\* any failure was logged.
C17_NotFoundIsData ==
  /\ Top = "nav114" => (outcome = "running" /\ BudgetExhausted)
  /\ Len(logs) >= 1 => (NavOver /\ retBool = FALSE)
  /\ (NavOver /\ ~retBool) => (BudgetExhausted \/ nav.newId = nav.currentId)
  /\ outcome = "threw" => (focus = NoElem /\ logs = <<>>)

\* C17 witness: budget 1, one move, the focus changed: the call returned
\* false by exhausting its budget.
C17_Witness ==
  /\ NavOver /\ outcome = "returned" /\ ~retBool
  /\ arg.n = 1 /\ BudgetExhausted /\ Len(keyTrace) = 1
  /\ nav.newId # nav.currentId

\* C18 as stated: the value a failed search returned tells its exit: a
\* search that failed by a stall did not return the value of the
\* budget-exhausted exit, and the other way round.
C18_ReasonInValue ==
  (NavOver /\ Len(logs) = 1)
    => /\ ~BudgetExhausted => retBool # NavBudgetResult
       /\ BudgetExhausted => retBool # NavStallResult

\* C18 amended: a failed navigateToApp returns the bare boolean false at
\* either exit; which exit it was shows only in the context of the one
\* log record: "max steps reached" exactly when the budget was spent, the
\* rail context exactly when the awaited token equalled the token read
\* before the move.
C18_ReasonInLogOnly ==
  (NavOver /\ Len(logs) >= 1)
    => /\ retBool = FALSE
       /\ Len(logs) = 1
       /\ BudgetExhausted <=> logs[1].context = "app navigation (max steps reached)"
       /\ ~BudgetExhausted
            <=> (/\ logs[1].context = "app navigation in Favourite Apps rail"
                 /\ nav.newId = nav.currentId)

\* C18 witness: a search with budget 2 stalled at its first move and
\* returned false, its record carrying the rail context.
C18_Witness ==
  /\ NavOver /\ outcome = "returned" /\ retBool = FALSE
  /\ arg.n = 2 /\ nav.i = 0 /\ Len(keyTrace) = 1
  /\ Len(logs) = 1 /\ logs[1].context = "app navigation in Favourite Apps rail"

\* C19 as stated: a navigateToApp that ended without finding its target
\* has written exactly one log record, and the record holds the target
\* sought and the token the search read last.
C19_LogHasLastToken ==
  (NavOver /\ ~retBool)
    => /\ Len(logs) = 1
       /\ logs[1].target = nav.appName
       /\ logs[1].lastFocused = lastRead

\* C20: navigateToApp has returned true exactly when the token it compared
\* last is a non-empty string equal to the target after lower-casing and
\* trimming both; with token "X": target "y" is never found, target "x "
\* is found at that comparison, with no key event when it is the first;
\* and "X " and "x" equal "X" after lower-casing and trimming.
C20_NormalisedMatch ==
  /\ retBool <=> (/\ nav.currentId # Null /\ nav.currentId # <<>>
                  /\ trim(toLowerCase(nav.currentId)) = trim(toLowerCase(nav.appName)))
  /\ (nav.currentId = <<88>> /\ nav.appName = <<121>>) => ~retBool
  /\ (nav.currentId = <<88>> /\ nav.appName = <<120, 32>>)
       => (NavOver /\ retBool /\ (nav.i = 0 => keyTrace = <<>>))
  /\ trim(toLowerCase(<<88, 32>>)) = trim(toLowerCase(<<88>>))
  /\ trim(toLowerCase(<<120>>)) = trim(toLowerCase(<<88>>))

\* C20 witness: target "y", the accessor gave "X" at both comparisons of a
\* search with budget 2: no match, the search ended not found.
C20_Witness ==
  /\ NavOver /\ outcome = "returned" /\ ~retBool
  /\ nav.appName = Stry /\ nav.currentId = StrX /\ nav.i = 1
  /\ Len(keyTrace) = 2

\* the last key event dispatched, if any, has completed its settling delay
KeySettled == keyTrace = <<>> \/ now - lastKeyAt >= KEY_PRESS_DELAY

\* control is where a key event is dispatched next
AtDispatch == Top = "pk36"

\* control is where a focus state is read next: the accessor's two
\* queries, a poll of waitForFocusChange, the menu's assertions and
\* pre-move check
AtFocusRead == Top \in {"get66", "get69", "wfc30", "menu188", "menu197", "menu213"}

\* frames of pressKey on the call stack
PressKeyFrames == {k \in DOMAIN stack : stack[k] \in {"pk36", "pk37", "pk38"}}

FalsyTokenMatchesStep ==
  (/\ Top = "nav93" /\ ProgramStep
   /\ ~Truthy(retTok) /\ normalise(nav.appName) = <<>>)
  => (ReturnsToScenario /\ retBool' = TRUE /\ keyTrace' = keyTrace)

\* the step condition of C21_FalsyTokenNeverMatches
FalsyTokenNeverMatchesStep ==
  /\ (Top = "nav93" /\ ProgramStep /\ (retTok = Null \/ retTok = <<>>))
       => (/\ retBool' = FALSE
           /\ Top' = "pkm49"
           /\ pkm' = [key |-> "ArrowRight", times |-> 1, i |-> 0])
  /\ retBool' => (nav'.currentId # Null /\ nav'.currentId # <<>>)

AccessorReturns ==
  Top \in {"get66", "get69"} /\ Len(stack') < Len(stack) /\ outcome' = "running"

\* the step condition of C23_RepeatedReadsEqual
RepeatedReadsEqualStep ==
  (AccessorReturns /\ wfcReads >= 1 /\ keyTrace' = <<>>) => retTok' = lastRead

\* the step condition of C23_ReadsCurrentFocus
ReadsCurrentFocusStep ==
  AccessorReturns
    => /\ retTok' = (IF focus = <<-2>> THEN <<-1>> ELSE focus)
       /\ focus' = focus /\ keyTrace' = keyTrace
       /\ (wfcReads >= 1 /\ focus = lastRead) => retTok' = lastRead

\* C23 as stated: a call of the accessor that follows another one with no
\* key event dispatched in between returns the token the earlier call
\* returned.
C23_RepeatedReadsEqual == [][RepeatedReadsEqualStep]_vars

\* C23 amended: a call of the accessor returns the token of the item
\* focused at the moment of its read (null when none is) and changes
\* neither the focus nor the key events; so it returns the token of the
\* call before whenever the focus then shows that token, and not
\* otherwise.
C23_ReadsCurrentFocus == [][ReadsCurrentFocusStep]_vars

\* C23 witness: the second read of a waitForFocusChange gave "X" as the
\* first did, the focus still on "X", no key event in between.
C23_Witness ==
  /\ op = "waitForFocusChange" /\ Top = "wfc31" /\ wfcReads = 2
  /\ wfc.currentValue = StrX /\ retTok = StrX /\ focus = StrX
  /\ keyTrace = <<>>

\* control is inside a focus accessor or inside waitForFocusChange
InObserver == Top \in {"get66", "get69", "wfc30", "wfc31", "wfc35"}

\* the step condition of C24_FrameEffect
FrameEffectStep ==
  /\ ProgramStep => (focus' = focus /\ menuFocus' = menuFocus)
  /\ focus' # focus => (stack' = stack /\ keyTrace' = keyTrace)
  /\ InObserver => keyTrace' = keyTrace
  /\ keyTrace' # keyTrace => Top = "pk36"
  /\ remote' = remote
  /\ remote.keyPressDelay = 100

\* C24: no step of the program writes the focus state, which changes only
\* by a step of the UI; the accessor and waitForFocusChange dispatch no key
\* event; a key event is dispatched only by pressKey; and no step changes
\* the key table or the settling delay of the RemoteControl.
C24_FrameEffect == [][FrameEffectStep]_vars

\* C24 witness: inside navigateToApp, one Right press was dispatched and
\* waitForFocusChange is at its third poll.
C24_Witness ==
  /\ op = "navigateToApp" /\ Top = "wfc35"
  /\ wfcCalls = 1 /\ wfcReads = 3 /\ Len(keyTrace) = 1

\* the Video-rail search has read the token of an iteration and decides
AtVideoDecision == Top = "add186" /\ ProgramStep

\* the Video-rail search leaves its loop for the final verification
VideoSearchBreaks ==
  /\ stack' = SubSeq(stack, 1, Len(stack) - 1) \o <<"add215", "get66">>
  /\ keyTrace' = keyTrace
  /\ logs' = logs

\* the Video-rail search issues its Right move
VideoSearchMoves ==
  /\ Top' = "pkm49"
  /\ pkm' = [key |-> "ArrowRight", times |-> 1, i |-> 0]
  /\ logs' = logs

NormalisedVideoMatchStep ==
  (/\ AtVideoDecision
   /\ retTok # Null /\ retTok # <<>>
   /\ trim(toLowerCase(retTok)) = trim(toLowerCase(add.appName)))
  => VideoSearchBreaks

\* C25: in the Video-rail search of addAppToFavoritesFromAppsPage a focused
\* token that equals appName up to letter case and surrounding white space
\* counts as the target found: the loop is left for the final verification
\* and no move is issued
C25_NormalisedVideoMatch == [][NormalisedVideoMatchStep]_vars

NullTokenMovesOnStep ==
  (AtVideoDecision /\ retTok = Null /\ add.appName # Null) => VideoSearchMoves

\* C26: in the Video-rail search a null token read at the start of an
\* iteration is not special-cased: not matching the target, it is followed
\* by the Right move and the search does not end at that read
C26_NullTokenMovesOn == [][NullTokenMovesOnStep]_vars

\* the pre-move checks made so far: the reads that are neither the anchor
\* assertion nor the final assertion
PreMoveChecks == menu.reads - 1 - (IF menu.finalRead # NotRead THEN 1 ELSE 0)

\* the call is between two iterations of its loop, or past the loop
BetweenMenuMoves == Top \in {"menu196", "menu197", "menu213", "main", "idle"}

EarlyExitStep ==
  KnownMenuCall =>
    /\ (Top = "menu197" /\ ProgramStep /\ menuFocus = MenuItems[menu.menuName].item)
         => (Top' = "menu213" /\ keyTrace' = keyTrace /\ pkm' = pkm)
    /\ (Top = "menu197" /\ ProgramStep /\ menuFocus # MenuItems[menu.menuName].item)
         => (/\ SubSeq(stack', Len(stack') - 2, Len(stack')) = <<"menu201", "move", "pkm49">>
             /\ pkm'.times = 1 /\ pkm'.i = 0
             /\ pkm'.key \in {"ArrowLeft", "ArrowRight"})
    /\ (Top = "menu213" /\ ProgramStep)
         => (keyTrace' = keyTrace /\ stack' \in {<<"main">>, <<>>})
    /\ (menu'.anchorRead = 1 /\ BetweenMenuMoves')
         => (/\ Cardinality(LateralMoves') = menu'.i
             /\ PreMoveChecks' - menu'.i \in {0, 1}
             /\ Top' \in {"menu196", "menu197"} => PreMoveChecks' = menu'.i)

\* C28: in navigateToMenuItemByName a pre-move check that reads the target
\* focused goes to the final assertion and no Left or Right press follows
\* in the call; a check that reads it not focused is followed by one
\* lateral press; so the lateral presses are as many as the checks that
\* found the target not focused, and at most one check found it focused
C28_EarlyExit == [][EarlyExitStep]_vars

\* C28 witness: Channels, two steps from Home, was read focused by the
\* second check, after one Right press: the call returned after that press
\* alone (anchor, two checks, final assertion: four reads).
C28_Witness ==
  /\ KnownMenuCall /\ menu.menuName = "Channels" /\ arg.n = 2 /\ outcome = "returned"
  /\ menu.reads = 4 /\ menu.i = 1
  /\ keyTrace = <<[type |-> "press", key |-> "ArrowUp"], [type |-> "press", key |-> "ArrowUp"],
                  [type |-> "press", key |-> "ArrowRight"]>>

\* waitForFocusChange is running and the UI shows token v, not the previous
ChangeInPlace(v) ==
  /\ outcome = "running"
  /\ Top \in {"wfc30", "wfc31", "wfc35", "get66", "get69"}
  /\ focus = v /\ v # arg.tok

\* waitForFocusChange returned v
ChangeReturned(v) == outcome = "returned" /\ retTok = v

\* C30 as stated: a token v different from previous that is in place
\* strictly before the timeout has elapsed since the call started, and
\* stays, is the value waitForFocusChange returns.
C30_ChangeWithinTimeoutReturned ==
  \A v \in TestIds :
    (ChangeInPlace(v) /\ now - wfc.startTime < wfc.timeout)
      ~> (focus # v \/ ChangeReturned(v))

\* C30, amended: a token v different from previous that is in place when
\* the loop test passes or while the accessor reads, and stays, is the
\* value waitForFocusChange returns.  (A change that lands after the last
\* read is not seen, though the timeout has not elapsed yet.)
C30_ChangeAtPollReturned ==
  \A v \in TestIds :
    (/\ ChangeInPlace(v)
     /\ \/ Top \in {"get66", "get69"}
        \/ Top = "wfc30" /\ now - wfc.startTime < wfc.timeout)
      ~> (focus # v \/ ChangeReturned(v))

\* C30 witness: previous "X", timeout 150: the first read gave "X", the
\* second, made before the timeout, gave "x ", which was returned.
C30_Witness ==
  /\ op = "waitForFocusChange" /\ outcome = "returned"
  /\ arg = [n |-> 150, tok |-> StrX]
  /\ retTok = StrxSp /\ focus = StrxSp /\ wfcReads = 2 /\ now < 150

\* the operation is over: it returned, or a read or an assertion of the UI
\* failed and its error ended the call
OperationOver ==
  \/ outcome = "returned"
  \/ outcome = "threw" /\ (focus = NoElem \/ add.error # "")

\* C29: when every await settles and time advances with the waits, each
\* of waitForFocusChange, navigateToApp and addAppToFavoritesFromAppsPage
\* comes to an end, whatever the UI does to the focus token and however
\* often
C29_LoopsTerminate == <>OperationOver

\* C29 witness: the Video-rail search read a new token after each of its
\* moves, never the target, spent its iterations and returned false at the
\* final verification.
C29_Witness ==
  /\ op = "addAppToFavoritesFromAppsPage" /\ outcome = "returned" /\ ~retBool
  /\ add.i = SearchLimit /\ wfcCalls = SearchLimit
  /\ Len(logs) = 1 /\ logs[1].context = "Video rail final verification"

\* the call returned the target item, which is focused
MenuReachedTarget ==
  /\ outcome = "returned"
  /\ menu.result = MenuItems[menu.menuName].item
  /\ menuFocus = MenuItems[menu.menuName].item

\* the call ended by the error of its final assertion
MenuHardFailure ==
  /\ outcome = "threw" /\ menu.error = "expect"
  /\ menu.finalRead # NotRead /\ menu.finalRead # MenuItems[menu.menuName].item

\* the budget covers the distance of the target from Home
MenuBudgetCovers ==
  LET t == MenuItems[menu.menuName].index
      dist == IF t >= 1 THEN t - 1 ELSE 1 - t
  IN arg.n >= dist

\* C27: against the well-behaved menu bar, navigateToMenuItemByName called
\* with a name of the index table eventually returns the target item,
\* focused, when the step budget is at least the distance of the target
\* from Home, and eventually ends by the error of the final assertion when
\* the budget is smaller
C27_IdealMenuReached ==
  KnownMenuCall
    ~> (KnownMenuCall /\ IF MenuBudgetCovers THEN MenuReachedTarget ELSE MenuHardFailure)

\* C27 witness: Search, one position left of Home, budget 1: Home was read
\* focused after the two Up presses, one Left press followed, the call
\* returned with Search focused.
C27_Witness ==
  /\ KnownMenuCall /\ menu.menuName = "Search" /\ arg.n = 1
  /\ MenuReachedTarget /\ menu.anchorRead = 1 /\ menuFocus = 0
  /\ keyTrace = <<[type |-> "press", key |-> "ArrowUp"], [type |-> "press", key |-> "ArrowUp"],
                  [type |-> "press", key |-> "ArrowLeft"]>>

\* the key events of Enter dispatched so far
SelectPresses == {k \in DOMAIN keyTrace : keyTrace[k].key = "Enter"}

RevertEndsSearchStep ==
  (/\ AtVideoDecision
   /\ add.i > 0
   /\ retTok = add.currentTestId)
  => (/\ ReturnsToScenario
      /\ retBool' = FALSE
      /\ keyTrace' = keyTrace
      /\ SelectPresses = {}
      /\ Len(logs') = 1 /\ logs'[1].context = "Video rail app search")

\* C31: in the Video-rail search, a token read at the start of an iteration
\* other than the first that equals the token read at the start of the
\* previous iteration ends the search: false is returned, no further key
\* event is dispatched, and Select was never pressed
C31_RevertEndsSearch == [][RevertEndsSearchStep]_vars

\* C31 witness: "X" was read, the Right move changed the token to "y", the
\* next iteration read "X" again: the search returned false after its one
\* Right press.
C31_Witness ==
  /\ op = "addAppToFavoritesFromAppsPage" /\ outcome = "returned" /\ ~retBool
  /\ add.i = 1 /\ add.currentTestId = StrX /\ add.previousTestId = StrX
  /\ add.newTestId = Stry
  /\ keyTrace = <<[type |-> "press", key |-> "ArrowDown"],
                  [type |-> "press", key |-> "ArrowRight"]>>

\* addAppToFavoritesFromAppsPage is over and did not throw
AddOver ==
  op = "addAppToFavoritesFromAppsPage" /\ Top \in {"main", "idle"} /\ outcome # "threw"

\* C34: a Select press exists only when the final verification read gave
\* appName, and no read of the Video rail followed it; a call that
\* returned false pressed no Select; a call that returned true pressed
\* Select exactly three times, as its last three key events
C34_SelectAfterVerification ==
  op = "addAppToFavoritesFromAppsPage"
    => /\ SelectPresses # {}
            => (add.finalTestId = add.appName /\ lastRead = add.appName)
       /\ (AddOver /\ ~retBool) => SelectPresses = {}
       /\ (AddOver /\ retBool)
            => /\ Cardinality(SelectPresses) = 3
               /\ SelectPresses = (Len(keyTrace) - 2)..Len(keyTrace)

\* C34 witness: the first Down focused "x ", the search broke at once, the
\* final read gave "x ": three Select presses followed and true was returned.
C34_Witness ==
  /\ AddOver /\ outcome = "returned" /\ retBool /\ add.finalTestId = StrxSp
  /\ keyTrace = <<[type |-> "press", key |-> "ArrowDown"], [type |-> "press", key |-> "Enter"],
                  [type |-> "press", key |-> "Enter"], [type |-> "press", key |-> "Enter"]>>

\* the key events of ArrowDown dispatched so far
DownPresses == {k \in DOMAIN keyTrace : keyTrace[k].key = "ArrowDown"}

\* the rail-seeking phase of addAppToFavoritesFromAppsPage is over
SeekingOver ==
  /\ op = "addAppToFavoritesFromAppsPage"
  /\ (Len(stack) < 2 \/ stack[2] \notin {"add163", "add166", "add172"})

RailSeekingStep ==
  op = "addAppToFavoritesFromAppsPage" =>
    /\ (Top = "add166" /\ ProgramStep /\ focus # <<-2>>)
         => (Top' = "add176" /\ keyTrace' = keyTrace)
    /\ SeekingOver => (SeekingOver' /\ DownPresses' = DownPresses)
    /\ (Top = "add176" /\ ProgramStep /\ focus = <<-2>>)
         => (/\ ReturnsToScenario /\ retBool' = FALSE
             /\ keyTrace' = keyTrace
             /\ DownPresses = DOMAIN keyTrace)
    /\ Cardinality(DownPresses') <= DownLimit
    /\ DownLimit <= 15
    /\ SeekingOver' => Cardinality(DownPresses') >= 1

\* C35: the rail-seeking phase dispatches at least one Down press and at
\* most as many as its limit, which is at most 15; a check that saw a
\* focused Video-rail item is followed by no Down press; the phase over,
\* no Down press follows; and when the check after the phase sees no
\* focused item the call returns false, having dispatched Down presses only
C35_RailSeeking == [][RailSeekingStep]_vars

\* C35 witness: no Video-rail item became focused: the phase spent its
\* limit of Down presses and the call returned false with the warning.
C35_Witness ==
  /\ AddOver /\ outcome = "returned" /\ ~retBool /\ add.warned
  /\ Len(keyTrace) = DownLimit /\ DownPresses = DOMAIN keyTrace /\ logs = <<>>

AccessorNeverRaisesStep ==
  (Top \in {"get66", "get69"} /\ ProgramStep)
    => (/\ outcome' = "running"
        /\ (focus = <<-2>> /\ Len(stack') < Len(stack)) => retTok' = <<-1>>)

\* C36: a step of the focus accessor never raises: where nothing is focused
\* in the container it returns null, also when the focused element has
\* vanished between the count and the attribute read; so the operation that
\* reads goes on
C36_AccessorNeverRaises == [][AccessorNeverRaisesStep]_vars

RemoveOver ==
  /\ op = "removeAppFromFavoritesIfExists"
  /\ Top \in {"main", "idle"}
  /\ outcome # "threw"

\* positions of the key trace holding a half of the long press
LongPressKeys == {k \in DOMAIN keyTrace : keyTrace[k].type \in {"down", "up"}}
\* positions of the key trace holding a Down or a Select command
ConfirmPresses ==
  {k \in DOMAIN keyTrace :
     keyTrace[k].type = "press" /\ keyTrace[k].key \in {"ArrowDown", "Enter"}}
BackPresses == {k \in DOMAIN keyTrace : keyTrace[k].key = "Escape"}

\* C32: removeAppFromFavoritesIfExists presses Down then Select and returns
\* true only when the app was in the favourites, navigateToApp found it,
\* the long press was issued and the delete button was not reported
\* disabled; an absent app means no key at all, a failed navigation means
\* no long press, and a disabled delete button means Back, no Down, no
\* Select and the result false.
C32_RemoveConfirmsOnlyWhenAllowed ==
  op = "removeAppFromFavoritesIfExists" =>
    /\ journey.inFavorites # "yes" => keyTrace = <<>>
    /\ journey.found # "yes" => (LongPressKeys = {} /\ ConfirmPresses = {} /\ BackPresses = {})
    /\ (RemoveOver /\ journey.inFavorites = "no") => ~retBool
    /\ (RemoveOver /\ journey.found = "no") => ~retBool
    /\ journey.deleteButtonState = "disabled"
         => /\ ConfirmPresses = {}
            /\ Cardinality(BackPresses) <= 1
            /\ RemoveOver => (/\ ~retBool
                              /\ keyTrace[Len(keyTrace)] = KeyPress("Escape")
                              /\ LongPressKeys = {Len(keyTrace) - 2, Len(keyTrace) - 1})
    /\ ConfirmPresses # {}
         => /\ journey.inFavorites = "yes" /\ journey.found = "yes"
            /\ journey.deleteButtonState \in {"focused", "null"}
            /\ Cardinality(LongPressKeys) = 2
            /\ \A k \in ConfirmPresses : \A l \in LongPressKeys : l < k
            /\ BackPresses = {}
    /\ (RemoveOver /\ retBool)
         => /\ Len(keyTrace) >= 4
            /\ SubSeq(keyTrace, Len(keyTrace) - 3, Len(keyTrace))
                 = <<KeyDown("Enter"), KeyUp("Enter"), KeyPress("ArrowDown"), KeyPress("Enter")>>
            /\ ConfirmPresses = {Len(keyTrace) - 1, Len(keyTrace)}
            /\ journey.deleteButtonState \in {"focused", "null"}
    /\ (RemoveOver /\ ~retBool) => ConfirmPresses = {}

\* the app was one step to the right, the long press brought up an enabled
\* delete button, and the removal was confirmed with Down and Select
C32_Witness ==
  /\ RemoveOver /\ outcome = "returned" /\ retBool
  /\ journey.inFavorites = "yes" /\ journey.found = "yes"
  /\ journey.deleteButtonState = "focused"
  /\ keyTrace = <<KeyPress("ArrowRight"), KeyDown("Enter"), KeyUp("Enter"),
                  KeyPress("ArrowDown"), KeyPress("Enter")>>

\* ------------------------------------------------------------------ C33
\* the keys of a completed navigateToAppsPage: Up twice, Right while the
\* menu resolution moved, then Select
AppsPageKeys(k) ==
  /\ k \in 3..Len(keyTrace)
  /\ keyTrace[1] = KeyPress("ArrowUp") /\ keyTrace[2] = KeyPress("ArrowUp")
  /\ \A j \in 3..(k - 1) : keyTrace[j] = KeyPress("ArrowRight")
  /\ keyTrace[k] = KeyPress("Enter")

\* C33: ensureNetflixInFavorites presses no key when Netflix is already in
\* the favourites; otherwise the add journey starts only after the menu
\* resolution to Apps has come back and Select was pressed, and once the
\* add journey has reported, the operation raises its error exactly when
\* the report was "not found".
C33_EnsureRaisesWhenNotFound ==
  op = "ensureNetflixInFavorites" =>
    /\ journey.inFavorites # "no"
         => (keyTrace = <<>> /\ menu = NoMenu /\ add = NoAdd /\ outcome # "threw")
    /\ journey.inFavorites = "no"
         => (menu.menuName = "Apps" /\ menu.maxSteps = MAX_MENU_STEPS)
    /\ add # NoAdd
         => /\ add.appName = Netflix
            /\ menu.result = MenuItems["Apps"].item /\ menu.error = ""
            /\ \E k \in 3..(3 + menu.i) : AppsPageKeys(k)
    /\ journey.error = "Netflix app not found" <=> journey.added = "no"
    /\ journey.added = "no" => (outcome = "threw" /\ ~retBool /\ add.error = "")
    /\ journey.added = "yes"
         => (outcome # "threw" /\ retBool /\ add.finalTestId = Netflix /\ add.error = "")
    /\ outcome = "returned" => (journey.inFavorites = "yes" \/ journey.added = "yes")
    /\ (outcome = "threw" /\ journey.added = "unset")
         => (journey.error = "expect" \/ menu.error # "" \/ add.error # "" \/ focus = NoElem)

\* Netflix was not in the favourites, the menu resolution walked the five
\* steps to Apps, the add journey moved down and reported not found, and
\* the operation raised its error
C33_Witness ==
  /\ op = "ensureNetflixInFavorites" /\ outcome = "threw"
  /\ journey.inFavorites = "no" /\ journey.added = "no"
  /\ journey.error = "Netflix app not found"
  /\ menu.i = 5 /\ AppsPageKeys(8)
  /\ Len(keyTrace) >= 9 /\ keyTrace[9] = KeyPress("ArrowDown")
  /\ ~retBool

====
